---- MODULE Spec2Model ----
(***************************************************************************)
(* A model of the notion-cms webhook worker (src/src/worker.ts): the       *)
(* request handler `fetch`, its publish-state gating, the storage of the   *)
(* webhook record, the retrieval of the page's blocks and their rendering. *)
(* Strings are TLA+ strings; storage keys, signatures and HTML are built   *)
(* by concatenation as the code builds them.                               *)
(***************************************************************************)
EXTENDS Integers, Sequences, FiniteSets, TLC

VARIABLES
    pc,        \* pc[h]: the position of handler h inside fetch
    req,       \* req[h]: the request handler h is serving
    resp,      \* resp[h]: the Response handler h returned (NoResp before)
    loc,       \* loc[h]: the local variables of fetch
    calls,     \* calls[h]: the requests handler h has sent to the Notion API
    kv,        \* the NOTION_CMS_WEBHOOKS namespace: key -> stored value
    received,  \* number of requests received so far
    issued     \* number of UUIDs crypto.randomUUID has returned so far

vars == <<pc, req, resp, loc, calls, kv, received, issued>>

(***************************************************************************)
(* Bounds of the model.                                                    *)
(***************************************************************************)
\* Requests received in one behaviour.
MaxEvents == 2
\* Largest page the upstream returns (the API's 100, scaled down).
PageSize == 2

\* Concurrent invocations of fetch.
Handlers == {"h1", "h2"}

\* JavaScript's null / undefined, where the value is otherwise a string.
Null == "<null>"

(***************************************************************************)
(* String helpers (String.prototype.startsWith / includes / split).        *)
(***************************************************************************)
StartsWith(s, p) == Len(p) <= Len(s) /\ SubSeq(s, 1, Len(p)) = p

Includes(s, sub) ==
    \E i \in 1..(Len(s) - Len(sub) + 1) : SubSeq(s, i, i + Len(sub) - 1) = sub

\* The position of the first sep at or after i, or 0.
RECURSIVE IndexFrom(_, _, _)
IndexFrom(s, sep, i) ==
    IF i > Len(s) THEN 0
    ELSE IF SubSeq(s, i, i) = sep THEN i
    ELSE IndexFrom(s, sep, i + 1)

\* s.split(sep), sep a single character.
RECURSIVE Split(_, _)
Split(s, sep) ==
    LET i == IndexFrom(s, sep, 1)
    IN  IF i = 0 THEN <<s>>
        ELSE <<SubSeq(s, 1, i - 1)>> \o Split(SubSeq(s, i + 1, Len(s)), sep)

\* xs.filter(Boolean) on an array of strings: drops the empty ones.
RECURSIVE FilterBoolean(_)
FilterBoolean(xs) ==
    IF xs = <<>> THEN <<>>
    ELSE IF Head(xs) = "" THEN FilterBoolean(Tail(xs))
    ELSE <<Head(xs)>> \o FilterBoolean(Tail(xs))

\* !v for a string-or-null value.
Falsy(v) == v = Null \/ v = ""

(***************************************************************************)
(* Tenant configuration: the NOTION_CMS_USERS namespace (read only).       *)
(***************************************************************************)
NoMapping ==
    [statusProperty |-> [id |-> Null, draft |-> Null, published |-> Null,
                         republish |-> Null],
     parentBlocks |-> [schemas |-> Null, blogCopy |-> Null]]

MappingT ==
    [statusProperty |-> [id |-> "prop1", draft |-> "Draft",
                         published |-> "Published", republish |-> "Republish"],
     parentBlocks |-> [schemas |-> "Schemas", blogCopy |-> "Blog Copy"]]

\* user:t has a mapping, user:n has none.
NOTION_CMS_USERS ==
    [k \in {"user:t", "user:n"} |->
        IF k = "user:t"
        THEN [verificationSecret |-> "s1", notionToken |-> "tok-t",
              notionMapping |-> MappingT]
        ELSE [verificationSecret |-> "s2", notionToken |-> "tok-n",
              notionMapping |-> NoMapping]]

NoUser ==
    [verificationSecret |-> Null, notionToken |-> Null, notionMapping |-> NoMapping]

\* env.NOTION_CMS_USERS.get(key): the stored value, or null.
UsersGet(key) == IF key \in DOMAIN NOTION_CMS_USERS THEN NOTION_CMS_USERS[key] ELSE NoUser

(***************************************************************************)
(* Request bodies and JSON.parse.                                          *)
(***************************************************************************)
BodyPage(id) ==
    "{\"type\":\"page.properties_updated\",\"entity\":{\"type\":\"page\",\"id\":\""
        \o id \o "\"}}"
BodyOtherType == "{\"type\":\"page.created\",\"entity\":{\"type\":\"page\",\"id\":\"a\"}}"
BodyDatabase ==
    "{\"type\":\"page.properties_updated\",\"entity\":{\"type\":\"database\",\"id\":\"a\"}}"
BodyNoEntity == "{\"type\":\"page.properties_updated\"}"
BodyMalformed == "{\"type\":"

\* Page ids that events name; "a" is a proper prefix of "ab".
PageIds == {"a", "ab"}

\* The ids of all documents of the upstream.
DocumentIds == PageIds \cup {"c", "d", "e", "f"}

Bodies == {BodyPage(p) : p \in PageIds}
              \cup {BodyOtherType, BodyDatabase, BodyNoEntity, BodyMalformed}

NoPayload == [type |-> Null, entityType |-> Null, entityId |-> Null]

\* JSON.parse(body) throws on a text that is not JSON.
JsonThrows(b) == b = BodyMalformed

\* JSON.parse(body) as { type, entity?: { type, id } }.
JsonParse(b) ==
    CASE b = BodyOtherType -> [type |-> "page.created", entityType |-> "page", entityId |-> "a"]
      [] b = BodyDatabase ->
            [type |-> "page.properties_updated", entityType |-> "database", entityId |-> "a"]
      [] b = BodyNoEntity ->
            [type |-> "page.properties_updated", entityType |-> Null, entityId |-> Null]
      [] \E p \in DocumentIds : b = BodyPage(p) ->
            [type |-> "page.properties_updated", entityType |-> "page",
             entityId |-> CHOOSE p \in DocumentIds : b = BodyPage(p)]
      [] OTHER -> NoPayload

(***************************************************************************)
(* Signature.  HMAC-SHA256 is modelled as a collision-free keyed digest    *)
(* of the exact body text, written in the code's "sha256=<hex>" format.    *)
(***************************************************************************)
HmacHex(secret, b) == "hmac(" \o secret \o "," \o b \o ")"

\* A verifier that accepts whatever signature is presented.
validateWebhookSignature_AcceptsAny(b, notionSignature, verificationToken) ==
    ~Falsy(notionSignature)

validateWebhookSignature(b, notionSignature, verificationToken) ==
    LET calculatedSignature == "sha256=" \o HmacHex(verificationToken, b)
    IN  calculatedSignature = notionSignature

(***************************************************************************)
(* Requests.  One request per row of the handler's response table, each    *)
(* otherwise well formed, plus the tenant without a mapping under every    *)
(* kind of signature and a body signed for another body.                   *)
(***************************************************************************)
Request(m, path, sig, b) ==
    [method |-> m, pathname |-> path, signature |-> sig, body |-> b]

SignedBy(secret, b) == "sha256=" \o HmacHex(secret, b)

Requests ==
    {Request("GET", "/notion-webhook/t", SignedBy("s1", BodyPage("a")), BodyPage("a")),
     Request("POST", "/webhook/t", SignedBy("s1", BodyPage("a")), BodyPage("a")),
     Request("POST", "/notion-webhook/z", SignedBy("s1", BodyPage("a")), BodyPage("a")),
     Request("POST", "/notion-webhook/t", Null, BodyPage("a")),
     Request("POST", "/notion-webhook/t", SignedBy("s2", BodyPage("a")), BodyPage("a")),
     Request("POST", "/notion-webhook/t", SignedBy("s1", BodyPage("a")), BodyPage("ab"))}
    \cup {Request("POST", "/notion-webhook/n", sig, BodyPage("a")) :
            sig \in {Null, SignedBy("s1", BodyPage("a")), SignedBy("s2", BodyPage("a"))}}
    \cup {Request("POST", "/notion-webhook/t", SignedBy("s1", b), b) : b \in Bodies}

(***************************************************************************)
(* Responses.                                                              *)
(***************************************************************************)
NoResp == [status |-> 0, success |-> FALSE, message |-> Null]

\* new Response(JSON.stringify({success, message | error}), {status})
Response(st, ok, msg) == [status |-> st, success |-> ok, message |-> msg]

\* new Response("Method not allowed", {status: 405}): a plain-text body.
PlainResponse(st, text) == [status |-> st, success |-> FALSE, message |-> text]

(***************************************************************************)
(* The upstream document platform (read only during a run).                *)
(***************************************************************************)
Text(content) ==
    [type |-> "text", content |-> content, annotations |-> {}, href |-> Null]

Styled(content, flags, href) ==
    [type |-> "text", content |-> content, annotations |-> flags, href |-> href]

Mention == [type |-> "mention", content |-> Null, annotations |-> {}, href |-> Null]

NoMedia == [type |-> Null, url |-> Null]

Block(id, type, hasChildren, richText) ==
    [id |-> id, type |-> type, has_children |-> hasChildren, rich_text |-> richText,
     language |-> "", media |-> NoMedia, caption |-> <<>>]

NoBlock == Block(Null, Null, FALSE, <<>>)

Heading1(id, title) == Block(id, "heading_1", TRUE, <<Text(title)>>)
Paragraph(id, t) == Block(id, "paragraph", FALSE, <<Text(t)>>)
Bullet(id, t, hasChildren) == Block(id, "bulleted_list_item", hasChildren, <<Text(t)>>)
Numbered(id, t, hasChildren) == Block(id, "numbered_list_item", hasChildren, <<Text(t)>>)

\* The children of every block of the documents: "a" and "ab" hold both
\* sections; in "c" the name Blog Copy is the second run of a heading, in
\* "d" a heading has no run, in "e" the Blog Copy heading is inside a list item;
\* the Blog Copy section of "f" is a list nested without end, every item of
\* which reports has_children (the item f.1 is given as its own child).
ChildrenOf(id) ==
    CASE id = "a" -> <<Heading1("a.s", "Schemas"), Heading1("a.b", "Blog Copy")>>
      [] id = "a.s" -> <<Paragraph("a.s.1", "schema")>>
      [] id = "a.b" -> <<Bullet("a.b.1", "a", TRUE), Bullet("a.b.2", "b", FALSE),
                         Paragraph("a.b.3", "c"), Bullet("a.b.4", "d", FALSE),
                         Block("a.b.5", "unsupported_x", TRUE, <<>>),
                         Numbered("a.b.6", "e", TRUE)>>
      [] id = "a.b.1" -> <<Bullet("a.b.1.1", "a1", TRUE), Numbered("a.b.1.2", "a2", FALSE),
                           Bullet("a.b.1.3", "a3", FALSE)>>
      [] id = "a.b.1.1" -> <<Bullet("a.b.1.1.1", "a11", TRUE)>>
      [] id = "a.b.1.1.1" -> <<Bullet("a.b.1.1.1.1", "a111", TRUE)>>
      [] id = "a.b.1.1.1.1" -> <<Bullet("a.b.1.1.1.1.1", "a1111", TRUE)>>
      [] id = "a.b.1.1.1.1.1" -> <<Bullet("a.b.1.1.1.1.1.1", "a11111", TRUE)>>
      [] id = "a.b.1.1.1.1.1.1" -> <<Bullet("a.b.1.1.1.1.1.1.1", "a111111", FALSE)>>
      [] id = "a.b.5" -> <<Paragraph("a.b.5.1", "hidden")>>
      [] id = "a.b.6" -> <<Block("a.b.6.0", "unsupported_x", TRUE, <<>>),
                           Paragraph("a.b.6.1", "e1")>>
      [] id = "ab" -> <<Paragraph("ab.p", "intro"), Heading1("ab.s", "Schemas"),
                        Heading1("ab.b", "Blog Copy")>>
      [] id = "ab.s" -> <<>>
      [] id = "c" -> <<Heading1("c.s", "Schemas"),
                       Block("c.b", "heading_1", TRUE, <<Text("The "), Text("Blog Copy")>>)>>
      [] id = "d" -> <<Heading1("d.s", "Schemas"), Block("d.e", "heading_1", FALSE, <<>>)>>
      [] id = "e" -> <<Heading1("e.s", "Schemas"), Bullet("e.1", "x", TRUE)>>
      [] id = "e.1" -> <<Heading1("e.1.b", "Blog Copy")>>
      [] id = "f" -> <<Heading1("f.s", "Schemas"), Heading1("f.b", "Blog Copy")>>
      [] id = "f.b" -> <<Bullet("f.1", "x", TRUE)>>
      [] id = "f.1" -> <<Bullet("f.1", "x", TRUE)>>
      [] id = "ab.b" -> <<Paragraph("ab.b.1", "x"), Numbered("ab.b.2", "y", FALSE),
                          Numbered("ab.b.3", "z", FALSE)>>
      [] OTHER -> <<>>

\* The opaque continuation cursor for "n items were already returned".
CursorAt(n) == "cur:" \o ToString(n)

OffsetOf(cursor, len) ==
    IF cursor = Null THEN 0 ELSE CHOOSE n \in 0..len : CursorAt(n) = cursor

\* notion.blocks.children.list({block_id, start_cursor, page_size}):
\* { results, next_cursor }, at most page_size results from the cursor on.
BlocksChildrenList(block_id, start_cursor, page_size) ==
    LET all == ChildrenOf(block_id)
        from == OffsetOf(start_cursor, Len(all))
        to == IF from + page_size < Len(all) THEN from + page_size ELSE Len(all)
    IN  [results |-> SubSeq(all, from + 1, to),
         next_cursor |-> IF to < Len(all) THEN CursorAt(to) ELSE Null]

\* What notion.pages.properties.retrieve may answer for the status property:
\* a property of another type, or a status with any name (null when unset).
StatusNames == {"", "Draft", "Published", "Republish", "Archived"}

PropertyResponses ==
    {[type |-> "select", name |-> Null]}
        \cup {[type |-> "status", name |-> s] : s \in StatusNames \cup {Null}}

(***************************************************************************)
(* The webhook store.                                                      *)
(***************************************************************************)
\* An identifier that repeats: every call returns the same UUID.
RandomUUID_Repeats(n) == "e1"

\* crypto.randomUUID(): the n-th UUID returned, different from all before.
RandomUUID(n) == "e" \o ToString(n)

WebhookKey(userId, pageId, uniqueWebhookId) ==
    "webhook:" \o userId \o "-pageId:" \o pageId \o "-webhookId:" \o uniqueWebhookId

ListPrefix(userId, pageId) == "webhook:" \o userId \o "-pageId:" \o pageId

\* env.NOTION_CMS_WEBHOOKS.list({prefix}).keys
KvList(store, prefix) == {k \in DOMAIN store : StartsWith(k, prefix)}

(***************************************************************************)
(* Publish-state gating (the checks between the status retrieval and the   *)
(* put).  The result is the message of the Response returned, or Proceed.  *)
(***************************************************************************)
Proceed == "<proceed>"

MsgEmpty == "Status value is empty - ignoring webhook"
MsgPublished == "Status is 'published' which is worker-controlled - ignoring webhook"
MsgUnseen == "Cannot set republish/published status on non-existent page - ignoring webhook"
MsgDraft == "Existing page changed to draft status - ignoring webhook"
MsgInvalid(statusValue) == "Invalid status value \"" \o statusValue \o "\" - ignoring webhook"

\* Gate without the check that published is worker-controlled.
Gate_NoPublishedRule(pageExists, statusValue, statusProperty) ==
    IF Falsy(statusValue) THEN MsgEmpty
    ELSE IF ~pageExists /\ (statusValue = statusProperty.republish
                              \/ statusValue = statusProperty.published) THEN MsgUnseen
    ELSE IF pageExists /\ statusValue = statusProperty.draft THEN MsgDraft
    ELSE IF statusValue \notin {statusProperty.draft, statusProperty.published,
                                statusProperty.republish} THEN MsgInvalid(statusValue)
    ELSE Proceed

\* Gate without the check that an unseen page may only be a draft.
Gate_NoUnseenRule(pageExists, statusValue, statusProperty) ==
    IF Falsy(statusValue) THEN MsgEmpty
    ELSE IF statusValue = statusProperty.published THEN MsgPublished
    ELSE IF pageExists /\ statusValue = statusProperty.draft THEN MsgDraft
    ELSE IF statusValue \notin {statusProperty.draft, statusProperty.published,
                                statusProperty.republish} THEN MsgInvalid(statusValue)
    ELSE Proceed

\* Gate without the check that an existing page is not demoted to draft.
Gate_NoDraftRule(pageExists, statusValue, statusProperty) ==
    IF Falsy(statusValue) THEN MsgEmpty
    ELSE IF statusValue = statusProperty.published THEN MsgPublished
    ELSE IF ~pageExists /\ (statusValue = statusProperty.republish
                              \/ statusValue = statusProperty.published) THEN MsgUnseen
    ELSE IF statusValue \notin {statusProperty.draft, statusProperty.published,
                                statusProperty.republish} THEN MsgInvalid(statusValue)
    ELSE Proceed

\* Gate with the unseen-page check moved in front of the published check.
Gate_UnseenFirst(pageExists, statusValue, statusProperty) ==
    IF Falsy(statusValue) THEN MsgEmpty
    ELSE IF ~pageExists /\ (statusValue = statusProperty.republish
                              \/ statusValue = statusProperty.published) THEN MsgUnseen
    ELSE IF statusValue = statusProperty.published THEN MsgPublished
    ELSE IF pageExists /\ statusValue = statusProperty.draft THEN MsgDraft
    ELSE IF statusValue \notin {statusProperty.draft, statusProperty.published,
                                statusProperty.republish} THEN MsgInvalid(statusValue)
    ELSE Proceed

Gate(pageExists, statusValue, statusProperty) ==
    IF Falsy(statusValue) THEN MsgEmpty
    ELSE IF statusValue = statusProperty.published THEN MsgPublished
    ELSE IF ~pageExists /\ (statusValue = statusProperty.republish
                              \/ statusValue = statusProperty.published) THEN MsgUnseen
    ELSE IF pageExists /\ statusValue = statusProperty.draft THEN MsgDraft
    ELSE IF statusValue \notin {statusProperty.draft, statusProperty.published,
                                statusProperty.republish} THEN MsgInvalid(statusValue)
    ELSE Proceed

(***************************************************************************)
(* Rendering helpers.                                                      *)
(***************************************************************************)
ALLOWED_BLOCK_TYPES ==
    {"heading_1", "heading_2", "heading_3", "paragraph", "quote", "image", "video",
     "bulleted_list_item", "numbered_list_item", "divider", "code"}

\* The default of processBlocksRecursively's maxDepth parameter.
MaxDepth == 4

RECURSIVE Join(_, _)
Join(xs, sep) ==
    IF xs = <<>> THEN ""
    ELSE IF Len(xs) = 1 THEN Head(xs)
    ELSE Head(xs) \o sep \o Join(Tail(xs), sep)

\* item.text?.content || ""
RunContent(item) == IF Falsy(item.content) THEN "" ELSE item.content

RECURSIVE extractTextContent(_)
extractTextContent(richText) ==
    IF richText = <<>> THEN ""
    ELSE (IF Head(richText).type = "text" THEN RunContent(Head(richText)) ELSE "")
            \o extractTextContent(Tail(richText))

extractMediaUrl(block) ==
    IF block.type \in {"image", "video"} /\ block.media.type \in {"external", "file"}
    THEN (IF Falsy(block.media.url) THEN Null ELSE block.media.url)
    ELSE Null

Wrap(on, open, text, close) == IF on THEN open \o text \o close ELSE text

\* Bold and italic applied in the other order: italic inside bold.
RunToHtml_ItalicInsideBold(item) ==
    IF item.type # "text" THEN ""
    ELSE LET t0 == RunContent(item)
             t1 == Wrap("code" \in item.annotations, "<code>", t0, "</code>")
             t2 == Wrap("italic" \in item.annotations, "<em>", t1, "</em>")
             t3 == Wrap("bold" \in item.annotations, "<strong>", t2, "</strong>")
             t4 == Wrap("strikethrough" \in item.annotations, "<s>", t3, "</s>")
             t5 == Wrap("underline" \in item.annotations, "<u>", t4, "</u>")
         IN  Wrap(~Falsy(item.href), "<a href=\"" \o item.href \o "\">", t5, "</a>")

\* One rich-text run: code, bold, italic, strikethrough, underline, then the link.
RunToHtml(item) ==
    IF item.type # "text" THEN ""
    ELSE LET t0 == RunContent(item)
             t1 == Wrap("code" \in item.annotations, "<code>", t0, "</code>")
             t2 == Wrap("bold" \in item.annotations, "<strong>", t1, "</strong>")
             t3 == Wrap("italic" \in item.annotations, "<em>", t2, "</em>")
             t4 == Wrap("strikethrough" \in item.annotations, "<s>", t3, "</s>")
             t5 == Wrap("underline" \in item.annotations, "<u>", t4, "</u>")
         IN  Wrap(~Falsy(item.href), "<a href=\"" \o item.href \o "\">", t5, "</a>")

RECURSIVE richTextToHtml(_)
richTextToHtml(richText) ==
    IF richText = <<>> THEN ""
    ELSE RunToHtml(Head(richText)) \o richTextToHtml(Tail(richText))

isYouTubeUrl(url) == Includes(url, "youtube.com") \/ Includes(url, "youtu.be")

\* The longest run of characters outside [&\n?#] starting at i.
RECURSIVE VideoIdEnd(_, _)
VideoIdEnd(url, i) ==
    IF i > Len(url) \/ SubSeq(url, i, i) \in {"&", "\n", "?", "#"} THEN i - 1
    ELSE VideoIdEnd(url, i + 1)

\* url.match(/(?:youtube\.com\/watch\?v=|youtu\.be\/)([^&\n?#]+)/): the first
\* position where it matches, as <<start of the group, end of the group>>.
RECURSIVE WatchMatch(_, _)
WatchMatch(url, i) ==
    IF i > Len(url) THEN <<>>
    ELSE LET long == "youtube.com/watch?v="
             short == "youtu.be/"
             at(p) == SubSeq(url, i, i + Len(p) - 1) = p
                        /\ VideoIdEnd(url, i + Len(p)) >= i + Len(p)
         IN  IF at(long) THEN <<i + Len(long), VideoIdEnd(url, i + Len(long))>>
             ELSE IF at(short) THEN <<i + Len(short), VideoIdEnd(url, i + Len(short))>>
             ELSE WatchMatch(url, i + 1)

getYouTubeEmbedUrl(url) ==
    LET m == WatchMatch(url, 1)
    IN  IF m # <<>> THEN "https://www.youtube.com/embed/" \o SubSeq(url, m[1], m[2])
        ELSE url

\* ProcessedBlock.children: null, or an array of ProcessedBlock.
NullChildren == [isNull |-> TRUE, items |-> <<>>]
SomeChildren(items) == [isNull |-> FALSE, items |-> items]

RECURSIVE ChildrenHtml(_)
ChildrenHtml(items) ==
    IF items = <<>> THEN "" ELSE Head(items).html \o ChildrenHtml(Tail(items))

generateBlockHtml(block, children) ==
    LET rich == richTextToHtml(block.rich_text)
        nested == IF ~children.isNull /\ Len(children.items) > 0
                  THEN ChildrenHtml(children.items) ELSE ""
        url == extractMediaUrl(block)
    IN  CASE block.type = "heading_1" -> "<h1>" \o rich \o "</h1>"
          [] block.type = "heading_2" -> "<h2>" \o rich \o "</h2>"
          [] block.type = "heading_3" -> "<h3>" \o rich \o "</h3>"
          [] block.type = "paragraph" -> "<p>" \o rich \o "</p>"
          [] block.type = "quote" -> "<blockquote>" \o rich \o "</blockquote>"
          [] block.type = "code" ->
                "<pre><code class=\"" \o block.language \o "\">"
                    \o extractTextContent(block.rich_text) \o "</code></pre>"
          [] block.type = "image" ->
                IF Falsy(url) THEN ""
                ELSE "<img src=\"" \o url \o "\" alt=\""
                        \o richTextToHtml(block.caption) \o "\" />"
          [] block.type = "video" ->
                IF Falsy(url) THEN ""
                ELSE IF isYouTubeUrl(url)
                THEN "<iframe src=\"" \o getYouTubeEmbedUrl(url)
                        \o "\" frameborder=\"0\" allowfullscreen></iframe>"
                ELSE "<video src=\"" \o url \o "\" controls></video>"
          [] block.type = "divider" -> "<hr>"
          [] block.type = "bulleted_list_item" ->
                "<ul><li>" \o rich \o nested \o "</li></ul>"
          [] block.type = "numbered_list_item" ->
                "<ol><li>" \o rich \o nested \o "</li></ol>"
          [] OTHER -> ""

IsListItem(type) == type \in {"bulleted_list_item", "numbered_list_item"}

\* The content field of a ProcessedBlock.
BlockContent(block) ==
    CASE block.type \in {"image", "video"} -> extractMediaUrl(block)
      [] block.type = "divider" -> Null
      [] OTHER -> extractTextContent(block.rich_text)

\* The depth test left out: every list item with children is descended into.
FetchesChildren_NoDepthCap(block, currentDepth) ==
    IsListItem(block.type) /\ block.has_children

\* A larger cap: the traversal descends six levels.
FetchesChildren_DeeperCap(block, currentDepth) ==
    IsListItem(block.type) /\ currentDepth < 6 /\ block.has_children

\* A list item's children are requested when the depth allows and it has some.
FetchesChildren(block, currentDepth) ==
    IsListItem(block.type) /\ currentDepth < MaxDepth /\ block.has_children

\* The allow-list test left out: only a block without id or type is skipped.
Skipped_AnyTypeKept(block) == Falsy(block.id) \/ Falsy(block.type)

\* The loop's `continue` cases: a block without id or type, or of a type
\* outside the allow-list.
Skipped(block) ==
    Falsy(block.id) \/ Falsy(block.type) \/ block.type \notin ALLOWED_BLOCK_TYPES

\* notion.blocks.children.list({block_id}): one request, no cursor, the
\* API's default page size.
ListItemChildren(block_id) == BlocksChildrenList(block_id, Null, PageSize).results

\* The entry processBlocksRecursively pushes for a block it keeps.
ProcessedBlock(block, children) ==
    [blockID |-> block.id, type |-> block.type,
     content |-> BlockContent(block), children |-> children,
     html |-> generateBlockHtml(block, children)]

\* The catch dropping the item: an item whose children request throws is
\* not emitted.
RECURSIVE processBlocksRecursively_FailureDropsItem(_, _, _)
processBlocksRecursively_FailureDropsItem(blocks, currentDepth, failing) ==
    IF blocks = <<>> THEN <<>>
    ELSE LET block == Head(blocks)
             rest == processBlocksRecursively_FailureDropsItem(
                         Tail(blocks), currentDepth, failing)
             children ==
                 IF FetchesChildren(block, currentDepth)
                 THEN SomeChildren(processBlocksRecursively_FailureDropsItem(
                          ListItemChildren(block.id), currentDepth + 1, failing))
                 ELSE NullChildren
         IN  IF Skipped(block)
                  \/ (FetchesChildren(block, currentDepth) /\ block.id \in failing)
             THEN rest
             ELSE <<[blockID |-> block.id, type |-> block.type,
                     content |-> BlockContent(block), children |-> children,
                     html |-> generateBlockHtml(block, children)]>> \o rest

\* processBlocksRecursively(blocks, notion, currentDepth); failing is the
\* set of blocks whose children request throws.
RECURSIVE processBlocksRecursively(_, _, _)
processBlocksRecursively(blocks, currentDepth, failing) ==
    IF blocks = <<>> THEN <<>>
    ELSE CHOOSE processed \in
           { (IF Skipped(block) THEN <<>>
              ELSE CHOOSE kept \in
                     { <<ProcessedBlock(block, children)>> : children \in
                         { IF FetchesChildren(block, currentDepth) /\ block.id \notin failing
                           THEN SomeChildren(processBlocksRecursively(
                                    ListItemChildren(block.id), currentDepth + 1, failing))
                           ELSE NullChildren } } : TRUE)
             \o processBlocksRecursively(Tail(blocks), currentDepth, failing)
             : block \in {Head(blocks)} } : TRUE

\* The children requests processBlocksRecursively sends, in order.
RECURSIVE ChildRequests(_, _, _)
ChildRequests(blocks, currentDepth, failing) ==
    IF blocks = <<>> THEN <<>>
    ELSE CHOOSE requested \in
           { (IF Skipped(block) \/ ~FetchesChildren(block, currentDepth) THEN <<>>
              ELSE <<block.id>>
                     \o (IF block.id \in failing THEN <<>>
                         ELSE ChildRequests(ListItemChildren(block.id),
                                            currentDepth + 1, failing)))
             \o ChildRequests(Tail(blocks), currentDepth, failing)
             : block \in {Head(blocks)} } : TRUE

\* processListItems(blocks, listType) of generateCompleteHtml.
RECURSIVE processListItems(_, _)
processListItems(blocks, listType) ==
    LET li(item) ==
            LET content == IF Falsy(item.content) THEN "" ELSE item.content
                kids == item.children
            IN  "<li>" \o content
                  \o (IF ~kids.isNull /\ Len(kids.items) > 0
                      THEN processListItems(kids.items,
                               IF kids.items[1].type = "bulleted_list_item"
                               THEN "ul" ELSE "ol")
                      ELSE "")
                  \o "</li>"
        RECURSIVE lis(_)
        lis(xs) == IF xs = <<>> THEN "" ELSE li(Head(xs)) \o lis(Tail(xs))
    IN  "<" \o listType \o ">" \o lis(blocks) \o "</" \o listType \o ">"

\* The inner while left out: a run ends after its first item.
RunEnd_SingleItem(blocks, i, type) == i + 1

\* The first index at or after i whose block is not of the given type.
RECURSIVE RunEnd(_, _, _)
RunEnd(blocks, i, type) ==
    IF i <= Len(blocks) /\ blocks[i].type = type THEN RunEnd(blocks, i + 1, type) ELSE i

\* The fragments generateCompleteHtml pushes from index i on.
RECURSIVE Fragments(_, _)
Fragments(blocks, i) ==
    IF i > Len(blocks) THEN <<>>
    ELSE IF IsListItem(blocks[i].type)
    THEN LET j == RunEnd(blocks, i, blocks[i].type)
         IN  <<processListItems(SubSeq(blocks, i, j - 1),
                   IF blocks[i].type = "bulleted_list_item" THEN "ul" ELSE "ol")>>
                \o Fragments(blocks, j)
    ELSE <<blocks[i].html>> \o Fragments(blocks, i + 1)

generateCompleteHtml(processedBlocks) == Join(Fragments(processedBlocks, 1), "\n")

(***************************************************************************)
(* The handler's state.                                                    *)
(***************************************************************************)
InitLoc ==
    [userId |-> Null, userData |-> NoUser, body |-> Null, notionSignature |-> Null,
     isTrustedPayload |-> FALSE, payload |-> NoPayload, pageId |-> Null,
     keys |-> {}, pageExists |-> FALSE, statusValue |-> Null,
     uniqueWebhookId |-> Null, pageBlocks |-> <<>>,
     blogCopyBlock |-> NoBlock, schemasBlock |-> NoBlock,
     schemaBlocks |-> <<>>, blogCopyBlocks |-> <<>>, nextCursor |-> Null,
     processedBlocks |-> <<>>]

NoRequest == Request(Null, Null, Null, Null)

NoRecord ==
    [userId |-> Null, uniqueWebhookId |-> Null, payload |-> NoPayload,
     pageId |-> Null, status |-> Null]

EmptyKv == [k \in {} |-> NoRecord]

Init ==
    /\ pc = [h \in Handlers |-> "idle"]
    /\ req = [h \in Handlers |-> NoRequest]
    /\ resp = [h \in Handlers |-> NoResp]
    /\ loc = [h \in Handlers |-> InitLoc]
    /\ calls = [h \in Handlers |-> <<>>]
    /\ kv = EmptyKv
    /\ received = 0
    /\ issued = 0

\* return new Response(...): the invocation ends.
Return(h, r) ==
    /\ pc' = [pc EXCEPT ![h] = "done"]
    /\ resp' = [resp EXCEPT ![h] = r]

\* Fall through to the next statement.
Goto(h, label) ==
    /\ pc' = [pc EXCEPT ![h] = label]
    /\ UNCHANGED resp

\* The inner catch: "Error retrieving page".
RetrieveFailed == Response(500, FALSE, "Failed to retrieve Notion page")

\* The outer catch: "Error processing webhook".
ProcessFailed == Response(500, FALSE, "Failed to process webhook")

\* A request sent to the Notion API; threw tells that it was rejected.
ApiCall(api, id, cursor) ==
    [api |-> api, id |-> id, cursor |-> cursor, threw |-> FALSE]

Threw(c) == [c EXCEPT !.threw = TRUE]

Called(h, c) == calls' = [calls EXCEPT ![h] = Append(@, c)]

(***************************************************************************)
(* fetch, statement by statement.                                          *)
(***************************************************************************)
\* A request arrives and a new invocation of fetch starts.
Receive(h) ==
    /\ pc[h] \in {"idle", "done"}
    /\ received < MaxEvents
    /\ \E r \in Requests : req' = [req EXCEPT ![h] = r]
    /\ received' = received + 1
    /\ pc' = [pc EXCEPT ![h] = "method"]
    /\ resp' = [resp EXCEPT ![h] = NoResp]
    /\ loc' = [loc EXCEPT ![h] = InitLoc]
    /\ calls' = [calls EXCEPT ![h] = <<>>]
    /\ UNCHANGED <<kv, issued>>

CheckMethod(h) ==
    /\ pc[h] = "method"
    /\ IF req[h].method # "POST"
       THEN Return(h, PlainResponse(405, "Method not allowed"))
       ELSE Goto(h, "path")
    /\ UNCHANGED <<req, loc, calls, kv, received, issued>>

ParsePath(h) ==
    /\ pc[h] = "path"
    /\ LET pathParts == FilterBoolean(Split(req[h].pathname, "/"))
       IN  IF Len(pathParts) # 2 \/ pathParts[1] # "notion-webhook"
           THEN /\ Return(h, Response(400, FALSE,
                      "Invalid webhook URL format. Expected: /notion-webhook/{userId}"))
                /\ UNCHANGED loc
           ELSE /\ Goto(h, "user")
                /\ loc' = [loc EXCEPT ![h].userId = pathParts[2]]
    /\ UNCHANGED <<req, calls, kv, received, issued>>

GetUser(h) ==
    /\ pc[h] = "user"
    /\ LET userDataStr == UsersGet("user:" \o loc[h].userId)
       IN  IF userDataStr = NoUser
           THEN /\ Return(h, Response(404, FALSE, "User not found"))
                /\ UNCHANGED loc
           ELSE /\ Goto(h, "mapping")
                /\ loc' = [loc EXCEPT ![h].userData = userDataStr]
    /\ UNCHANGED <<req, calls, kv, received, issued>>

CheckMapping(h) ==
    /\ pc[h] = "mapping"
    /\ IF loc[h].userData.notionMapping = NoMapping
       THEN Return(h, Response(200, TRUE,
                "No notion mapping configured - ignoring webhook"))
       ELSE Goto(h, "signature")
    /\ UNCHANGED <<req, loc, calls, kv, received, issued>>

\* request.text(), the X-Notion-Signature header and the check that it is there.
ReadSignature(h) ==
    /\ pc[h] = "signature"
    /\ loc' = [loc EXCEPT ![h].body = req[h].body,
                          ![h].notionSignature = req[h].signature]
    /\ IF Falsy(req[h].signature)
       THEN Return(h, Response(400, FALSE, "Missing X-Notion-Signature header"))
       ELSE Goto(h, "validate")
    /\ UNCHANGED <<req, calls, kv, received, issued>>

ValidateSignature(h) ==
    /\ pc[h] = "validate"
    /\ LET isTrustedPayload ==
               validateWebhookSignature(loc[h].body, loc[h].notionSignature,
                                        loc[h].userData.verificationSecret)
       IN  /\ loc' = [loc EXCEPT ![h].isTrustedPayload = isTrustedPayload]
           /\ IF ~isTrustedPayload
              THEN Return(h, Response(403, FALSE,
                       "Invalid signature - webhook not from Notion"))
              ELSE Goto(h, "parse")
    /\ UNCHANGED <<req, calls, kv, received, issued>>

\* JSON.parse(body); a throw lands in the outer catch.
ParsePayload(h) ==
    /\ pc[h] = "parse"
    /\ IF JsonThrows(loc[h].body)
       THEN /\ Return(h, ProcessFailed)
            /\ UNCHANGED loc
       ELSE /\ Goto(h, "type")
            /\ loc' = [loc EXCEPT ![h].payload = JsonParse(loc[h].body)]
    /\ UNCHANGED <<req, calls, kv, received, issued>>

CheckType(h) ==
    /\ pc[h] = "type"
    /\ IF loc[h].payload.type # "page.properties_updated"
       THEN Return(h, Response(200, TRUE, "Webhook received but not relevant type"))
       ELSE Goto(h, "entity")
    /\ UNCHANGED <<req, loc, calls, kv, received, issued>>

CheckEntity(h) ==
    /\ pc[h] = "entity"
    /\ IF loc[h].payload.entityType # "page"
       THEN /\ Return(h, Response(200, TRUE,
                    "Webhook received but entity type is not 'page'"))
            /\ UNCHANGED loc
       ELSE /\ Goto(h, "exists")
            /\ loc' = [loc EXCEPT ![h].pageId = loc[h].payload.entityId]
    /\ UNCHANGED <<req, calls, kv, received, issued>>

\* env.NOTION_CMS_WEBHOOKS.list({prefix}).keys.length > 0
ListKeys(h) ==
    /\ pc[h] = "exists"
    /\ LET keys == KvList(kv, ListPrefix(loc[h].userId, loc[h].pageId))
       IN  loc' = [loc EXCEPT ![h].keys = keys,
                              ![h].pageExists = Cardinality(keys) > 0]
    /\ Goto(h, "status")
    /\ UNCHANGED <<req, calls, kv, received, issued>>

\* notion.pages.properties.retrieve and the type guard.
RetrieveStatus(h) ==
    /\ pc[h] = "status"
    /\ LET request == ApiCall("pages.properties.retrieve", loc[h].pageId,
                               loc[h].userData.notionMapping.statusProperty.id)
       IN  \/ /\ Called(h, Threw(request))
              /\ Return(h, RetrieveFailed)
              /\ UNCHANGED loc
           \/ /\ Called(h, request)
              /\ \E pageStatusProperty \in PropertyResponses :
                    IF pageStatusProperty.type # "status"
                    THEN /\ Return(h, Response(200, TRUE,
                                "Expected status property but got different type - ignoring webhook"))
                         /\ UNCHANGED loc
                    ELSE /\ Goto(h, "gate")
                         /\ loc' = [loc EXCEPT
                                      ![h].statusValue = pageStatusProperty.name]
    /\ UNCHANGED <<req, kv, received, issued>>

\* The status checks.
GateStep(h) ==
    /\ pc[h] = "gate"
    /\ LET decision == Gate(loc[h].pageExists, loc[h].statusValue,
                            loc[h].userData.notionMapping.statusProperty)
       IN  IF decision # Proceed
           THEN Return(h, Response(200, TRUE, decision))
           ELSE Goto(h, "put")
    /\ UNCHANGED <<req, loc, calls, kv, received, issued>>

StoredValue(h, uniqueWebhookId) ==
    [userId |-> loc[h].userId, uniqueWebhookId |-> uniqueWebhookId,
     payload |-> loc[h].payload, pageId |-> loc[h].pageId,
     status |-> loc[h].statusValue]

KvPut(store, key, value) ==
    [k \in DOMAIN store \cup {key} |-> IF k = key THEN value ELSE store[k]]

\* The put left out: the handler goes on without storing the record.
PutRecord_NotStored(h) ==
    /\ pc[h] = "put"
    /\ issued' = issued + 1
    /\ loc' = [loc EXCEPT ![h].uniqueWebhookId = RandomUUID(issued + 1)]
    /\ Goto(h, "blocks")
    /\ UNCHANGED <<req, calls, kv, received>>

\* crypto.randomUUID() and env.NOTION_CMS_WEBHOOKS.put.
PutRecord(h) ==
    /\ pc[h] = "put"
    /\ issued' = issued + 1
    /\ LET uniqueWebhookId == RandomUUID(issued + 1)
       IN  /\ loc' = [loc EXCEPT ![h].uniqueWebhookId = uniqueWebhookId]
           /\ kv' = KvPut(kv, WebhookKey(loc[h].userId, loc[h].pageId, uniqueWebhookId),
                          StoredValue(h, uniqueWebhookId))
    /\ Goto(h, "blocks")
    /\ UNCHANGED <<req, calls, received>>

\* The first rich-text run of a heading, read as block.heading_1.rich_text[0]
\* .text.content: a TypeError when there is no run or the run has no text.
FirstRunThrows(block) ==
    block.type = "heading_1"
        /\ (block.rich_text = <<>> \/ block.rich_text[1].type # "text")

\* The filter's predicate over the root's children.
IsParentBlock(block, parentBlocks) ==
    /\ ~Falsy(block.type)
    /\ block.type = "heading_1"
    /\ (block.rich_text[1].content = parentBlocks.schemas
          \/ block.rich_text[1].content = parentBlocks.blogCopy)

\* parentBlocks[name] after the reduce: the last matching heading with that
\* text, or undefined.
RECURSIVE ParentBlock(_, _, _)
ParentBlock(results, name, parentBlocks) ==
    IF results = <<>> THEN NoBlock
    ELSE LET last == results[Len(results)]
         IN  IF IsParentBlock(last, parentBlocks) /\ last.rich_text[1].content = name
             THEN last
             ELSE ParentBlock(SubSeq(results, 1, Len(results) - 1), name, parentBlocks)

MissingSections(blogCopyBlock, schemasBlock) ==
    "Missing required sections: "
        \o (IF blogCopyBlock = NoBlock THEN "Blog Copy" ELSE "")
        \o " "
        \o (IF schemasBlock = NoBlock THEN "Schemas" ELSE "")

\* notion.blocks.children.list({block_id: pageId}) and the search for the two
\* section headings among its results.
ListPageBlocks(h) ==
    /\ pc[h] = "blocks"
    /\ \/ /\ Called(h, Threw(ApiCall("blocks.children.list", loc[h].pageId, Null)))
          /\ Return(h, RetrieveFailed)
          /\ UNCHANGED loc
       \/ LET pageBlocks == BlocksChildrenList(loc[h].pageId, Null, PageSize)
              parentBlocks == loc[h].userData.notionMapping.parentBlocks
              blogCopyBlock ==
                  ParentBlock(pageBlocks.results, parentBlocks.blogCopy, parentBlocks)
              schemasBlock ==
                  ParentBlock(pageBlocks.results, parentBlocks.schemas, parentBlocks)
          IN  /\ Called(h, ApiCall("blocks.children.list", loc[h].pageId, Null))
              /\ IF \E i \in 1..Len(pageBlocks.results) :
                        FirstRunThrows(pageBlocks.results[i])
                 THEN /\ Return(h, RetrieveFailed)
                      /\ UNCHANGED loc
                 ELSE /\ loc' = [loc EXCEPT ![h].pageBlocks = pageBlocks.results,
                                            ![h].blogCopyBlock = blogCopyBlock,
                                            ![h].schemasBlock = schemasBlock]
                      /\ IF blogCopyBlock = NoBlock \/ schemasBlock = NoBlock
                         THEN Return(h, Response(200, TRUE,
                                  MissingSections(blogCopyBlock, schemasBlock)))
                         ELSE Goto(h, "schemas")
    /\ UNCHANGED <<req, kv, received, issued>>

\* A rejected request taken as an empty section: the handler goes on to the
\* next section.
FetchSchemas_FailureSkipsSection(h) ==
    /\ pc[h] = "schemas"
    /\ \/ /\ Called(h, Threw(ApiCall("blocks.children.list", loc[h].schemasBlock.id,
                                     loc[h].nextCursor)))
          /\ Goto(h, "blogCopy")
          /\ loc' = [loc EXCEPT ![h].nextCursor = Null]
       \/ LET response == BlocksChildrenList(loc[h].schemasBlock.id,
                                             loc[h].nextCursor, PageSize)
          IN  /\ Called(h, ApiCall("blocks.children.list", loc[h].schemasBlock.id,
                                   loc[h].nextCursor))
              /\ loc' = [loc EXCEPT
                    ![h].schemaBlocks = @ \o response.results,
                    ![h].nextCursor = response.next_cursor]
              /\ IF ~Falsy(response.next_cursor)
                 THEN Goto(h, "schemas")
                 ELSE Goto(h, "blogCopy")
    /\ UNCHANGED <<req, kv, received, issued>>

\* One iteration of the first do-while: a page of the schemas block's children.
FetchSchemas(h) ==
    /\ pc[h] = "schemas"
    /\ \/ /\ Called(h, Threw(ApiCall("blocks.children.list", loc[h].schemasBlock.id,
                                     loc[h].nextCursor)))
          /\ Return(h, RetrieveFailed)
          /\ UNCHANGED loc
       \/ LET response == BlocksChildrenList(loc[h].schemasBlock.id,
                                             loc[h].nextCursor, PageSize)
          IN  /\ Called(h, ApiCall("blocks.children.list", loc[h].schemasBlock.id,
                                   loc[h].nextCursor))
              /\ loc' = [loc EXCEPT
                    ![h].schemaBlocks = @ \o response.results,
                    ![h].nextCursor = response.next_cursor]
              /\ IF ~Falsy(response.next_cursor)
                 THEN Goto(h, "schemas")
                 ELSE Goto(h, "blogCopy")
    /\ UNCHANGED <<req, kv, received, issued>>

\* The second loop without its condition: the first page is taken as all.
FetchBlogCopy_FirstPageOnly(h) ==
    /\ pc[h] = "blogCopy"
    /\ \/ /\ Called(h, Threw(ApiCall("blocks.children.list", loc[h].blogCopyBlock.id,
                                     loc[h].nextCursor)))
          /\ Return(h, RetrieveFailed)
          /\ UNCHANGED loc
       \/ LET response == BlocksChildrenList(loc[h].blogCopyBlock.id,
                                             loc[h].nextCursor, PageSize)
          IN  /\ Called(h, ApiCall("blocks.children.list", loc[h].blogCopyBlock.id,
                                   loc[h].nextCursor))
              /\ loc' = [loc EXCEPT
                    ![h].blogCopyBlocks = @ \o response.results,
                    ![h].nextCursor = response.next_cursor]
              /\ Goto(h, "render")
    /\ UNCHANGED <<req, kv, received, issued>>

\* One iteration of the second do-while: a page of the blogCopy block's
\* children (nextCursor was reset to undefined before the loop).
FetchBlogCopy(h) ==
    /\ pc[h] = "blogCopy"
    /\ \/ /\ Called(h, Threw(ApiCall("blocks.children.list", loc[h].blogCopyBlock.id,
                                     loc[h].nextCursor)))
          /\ Return(h, RetrieveFailed)
          /\ UNCHANGED loc
       \/ LET response == BlocksChildrenList(loc[h].blogCopyBlock.id,
                                             loc[h].nextCursor, PageSize)
          IN  /\ Called(h, ApiCall("blocks.children.list", loc[h].blogCopyBlock.id,
                                   loc[h].nextCursor))
              /\ loc' = [loc EXCEPT
                    ![h].blogCopyBlocks = @ \o response.results,
                    ![h].nextCursor = response.next_cursor]
              /\ IF ~Falsy(response.next_cursor)
                 THEN Goto(h, "blogCopy")
                 ELSE Goto(h, "render")
    /\ UNCHANGED <<req, kv, received, issued>>

\* List items whose children request may fail in a run.
Failable == {"a.b.1", "a.b.1.1", "a.b.6"}

RECURSIVE ChildCalls(_, _)
ChildCalls(ids, failing) ==
    IF ids = <<>> THEN <<>>
    ELSE LET request == ApiCall("blocks.children.list", Head(ids), Null)
         IN  <<IF Head(ids) \in failing THEN Threw(request) ELSE request>>
                \o ChildCalls(Tail(ids), failing)

SuccessResponse(h, processedBlocks, blogHtml) ==
    [status |-> 200, success |-> TRUE, message |-> "Webhook processed successfully",
     userId |-> loc[h].userId, pageId |-> loc[h].pageId,
     statusValue |-> loc[h].statusValue, pageExists |-> loc[h].pageExists,
     blocksCount |-> Len(loc[h].pageBlocks), processedBlocks |-> processedBlocks,
     completeHtml |-> blogHtml]

\* processBlocksRecursively, generateCompleteHtml and the final Response.
Render(h) ==
    /\ pc[h] = "render"
    /\ \E failing \in SUBSET Failable :
          \E processedBlocks \in
                {processBlocksRecursively(loc[h].blogCopyBlocks, 0, failing)} :
             \E blogHtml \in {generateCompleteHtml(processedBlocks)} :
                /\ calls' = [calls EXCEPT ![h] =
                       @ \o ChildCalls(ChildRequests(loc[h].blogCopyBlocks, 0, failing),
                                      failing)]
                /\ loc' = [loc EXCEPT ![h].processedBlocks = processedBlocks]
                /\ Return(h, SuccessResponse(h, processedBlocks, blogHtml))
    /\ UNCHANGED <<req, kv, received, issued>>

\* A stored record reaches its expirationTtl (180 days) and is dropped.
Expire(k) ==
    /\ k \in DOMAIN kv
    /\ kv' = [x \in DOMAIN kv \ {k} |-> kv[x]]
    /\ UNCHANGED <<pc, req, resp, loc, calls, received, issued>>

Step(h) ==
    \/ Receive(h)
    \/ CheckMethod(h)
    \/ ParsePath(h)
    \/ GetUser(h)
    \/ CheckMapping(h)
    \/ ReadSignature(h)
    \/ ValidateSignature(h)
    \/ ParsePayload(h)
    \/ CheckType(h)
    \/ CheckEntity(h)
    \/ ListKeys(h)
    \/ RetrieveStatus(h)
    \/ GateStep(h)
    \/ PutRecord(h)
    \/ ListPageBlocks(h)
    \/ FetchSchemas(h)
    \/ FetchBlogCopy(h)
    \/ Render(h)

Next ==
    \/ \E h \in Handlers : Step(h)
    \/ \E k \in DOMAIN kv : Expire(k)

Spec == Init /\ [][Next]_vars

(***************************************************************************)
(* The gating alone, over every input: a handler stands at the status      *)
(* checks with any existence flag, any status value and any status         *)
(* mapping, and takes the one step.                                        *)
(***************************************************************************)
GateNames == {"", "Draft", "Published", "Republish"}

GateMappings ==
    {[MappingT EXCEPT !.statusProperty.draft = d, !.statusProperty.published = p,
                      !.statusProperty.republish = r] :
        d \in GateNames, p \in GateNames, r \in GateNames}

GateRequest ==
    Request("POST", "/notion-webhook/t", SignedBy("s1", BodyPage("a")), BodyPage("a"))

GateInit ==
    /\ pc = [h \in Handlers |-> IF h = "h1" THEN "gate" ELSE "idle"]
    /\ req = [h \in Handlers |-> IF h = "h1" THEN GateRequest ELSE NoRequest]
    /\ resp = [h \in Handlers |-> NoResp]
    /\ \E e \in BOOLEAN, s \in StatusNames \cup {Null}, m \in GateMappings :
          loc = [h \in Handlers |->
                    IF h = "h1"
                    THEN [InitLoc EXCEPT
                            !.userId = "t",
                            !.userData = [NOTION_CMS_USERS["user:t"] EXCEPT
                                            !.notionMapping = m],
                            !.body = GateRequest.body,
                            !.notionSignature = GateRequest.signature,
                            !.isTrustedPayload = TRUE,
                            !.payload = JsonParse(GateRequest.body),
                            !.pageId = "a",
                            !.pageExists = e,
                            !.statusValue = s]
                    ELSE InitLoc]
    /\ calls = [h \in Handlers |-> <<>>]
    /\ kv = EmptyKv
    /\ received = 1
    /\ issued = 0

GateNext == \E h \in Handlers : GateStep(h)

GateSpec == GateInit /\ [][GateNext]_vars

(***************************************************************************)
(* The rendering alone, over many section contents: a handler stands       *)
(* before processBlocksRecursively with the section's blocks collected,    *)
(* and takes the one step.  The blocks are a sequence of childless         *)
(* bulleted items, numbered items and paragraphs, or one paragraph of one  *)
(* rich-text run with any annotations and an optional link.                *)
(***************************************************************************)
MaxBlocks == 4

ItemTypes == {"bulleted_list_item", "numbered_list_item", "paragraph"}

Letters == <<"a", "b", "c", "d", "e", "f">>

FlatSections ==
    UNION {{[i \in 1..n |-> Block("x" \o ToString(i), types[i], FALSE,
                                  <<Text(Letters[i])>>)] :
              types \in [1..n -> ItemTypes]} : n \in 0..MaxBlocks}

Annotations == {"bold", "italic", "strikethrough", "underline", "code"}

StyledSections ==
    {<<Block("x1", "paragraph", FALSE, <<Styled("x", flags, href)>>)>> :
        flags \in SUBSET Annotations, href \in {Null, "u"}}

RenderInit ==
    /\ pc = [h \in Handlers |-> IF h = "h1" THEN "render" ELSE "idle"]
    /\ req = [h \in Handlers |-> IF h = "h1" THEN GateRequest ELSE NoRequest]
    /\ resp = [h \in Handlers |-> NoResp]
    /\ \E section \in FlatSections \cup StyledSections :
          loc = [h \in Handlers |->
                    IF h = "h1"
                    THEN [InitLoc EXCEPT
                            !.userId = "t",
                            !.userData = NOTION_CMS_USERS["user:t"],
                            !.body = GateRequest.body,
                            !.notionSignature = GateRequest.signature,
                            !.isTrustedPayload = TRUE,
                            !.payload = JsonParse(GateRequest.body),
                            !.pageId = "a",
                            !.statusValue = "Draft",
                            !.uniqueWebhookId = RandomUUID(1),
                            !.pageBlocks = ChildrenOf("a"),
                            !.blogCopyBlock = ChildrenOf("a")[2],
                            !.schemasBlock = ChildrenOf("a")[1],
                            !.schemaBlocks = ChildrenOf("a.s"),
                            !.blogCopyBlocks = section]
                    ELSE InitLoc]
    /\ calls = [h \in Handlers |-> <<>>]
    /\ kv = EmptyKv
    /\ received = 1
    /\ issued = 1

RenderNext == \E h \in Handlers : Render(h)

RenderSpec == RenderInit /\ [][RenderNext]_vars

(***************************************************************************)
(* The search for the sections alone, over several documents and section   *)
(* names: a handler has stored its record and stands before the listing of *)
(* the root's children, with any of the documents as the page and any of   *)
(* the names configured for the two sections.                              *)
(***************************************************************************)
SectionRoots == DocumentIds

SchemasNames == {"Schemas", "schemas", "Schema", "chema"}

BlogCopyNames == {"Blog Copy", "blog copy", "Blog", "Copy"}

SectionMappings ==
    {[MappingT EXCEPT !.parentBlocks.schemas = sn, !.parentBlocks.blogCopy = bn] :
        sn \in SchemasNames, bn \in BlogCopyNames}

SectionsInit ==
    /\ pc = [h \in Handlers |-> IF h = "h1" THEN "blocks" ELSE "idle"]
    /\ resp = [h \in Handlers |-> NoResp]
    /\ \E root \in SectionRoots, m \in SectionMappings :
          LET r == Request("POST", "/notion-webhook/t",
                           SignedBy("s1", BodyPage(root)), BodyPage(root))
          IN  /\ req = [h \in Handlers |-> IF h = "h1" THEN r ELSE NoRequest]
              /\ loc = [h \in Handlers |->
                          IF h = "h1"
                          THEN [InitLoc EXCEPT
                                  !.userId = "t",
                                  !.userData = [NOTION_CMS_USERS["user:t"] EXCEPT
                                                  !.notionMapping = m],
                                  !.body = r.body,
                                  !.notionSignature = r.signature,
                                  !.isTrustedPayload = TRUE,
                                  !.payload = JsonParse(r.body),
                                  !.pageId = root,
                                  !.statusValue = "Draft",
                                  !.uniqueWebhookId = RandomUUID(1)]
                          ELSE InitLoc]
    /\ calls = [h \in Handlers |-> <<>>]
    /\ kv = EmptyKv
    /\ received = 1
    /\ issued = 1

SectionsNext ==
    \E h \in Handlers :
        \/ ListPageBlocks(h)
        \/ FetchSchemas(h)
        \/ FetchBlogCopy(h)
        \/ Render(h)

SectionsSpec == SectionsInit /\ [][SectionsNext]_vars

(***************************************************************************)
(* One event from its arrival to its response: a handler has received any  *)
(* of the requests, or a signed event for any document, and runs; every    *)
(* awaited call returns (or throws), so the handler's next statement is    *)
(* eventually executed.                                                    *)
(***************************************************************************)
EventRequests ==
    Requests \cup
        {Request("POST", "/notion-webhook/t", SignedBy("s1", BodyPage(p)), BodyPage(p)) :
            p \in DocumentIds}

EventInit ==
    /\ pc = [h \in Handlers |-> IF h = "h1" THEN "method" ELSE "idle"]
    /\ \E r \in EventRequests :
          req = [h \in Handlers |-> IF h = "h1" THEN r ELSE NoRequest]
    /\ resp = [h \in Handlers |-> NoResp]
    /\ loc = [h \in Handlers |-> InitLoc]
    /\ calls = [h \in Handlers |-> <<>>]
    /\ kv = EmptyKv
    /\ received = 1
    /\ issued = 0

\* The statements of fetch after the request has arrived.
Handle(h) ==
    \/ CheckMethod(h)
    \/ ParsePath(h)
    \/ GetUser(h)
    \/ CheckMapping(h)
    \/ ReadSignature(h)
    \/ ValidateSignature(h)
    \/ ParsePayload(h)
    \/ CheckType(h)
    \/ CheckEntity(h)
    \/ ListKeys(h)
    \/ RetrieveStatus(h)
    \/ GateStep(h)
    \/ PutRecord(h)
    \/ ListPageBlocks(h)
    \/ FetchSchemas(h)
    \/ FetchBlogCopy(h)
    \/ Render(h)

EventNext == \E h \in Handlers : Handle(h)

EventSpec ==
    EventInit /\ [][EventNext]_vars /\ \A h \in Handlers : WF_vars(Handle(h))

(***************************************************************************)
(* The media worker (mediaWorker/worker.ts).  Its fetch handler is         *)
(* modelled over the same variables: req is the upload request, loc the    *)
(* handler's locals, calls the requests it sent (the source URL, the       *)
(* bucket), kv the MEDIA_CDN bucket, issued the number of objects written. *)
(***************************************************************************)
\* env.MEDIA_SECRET_KEY and env.R2_PUBLIC_URL.
MEDIA_SECRET_KEY == "k"
R2_PUBLIC_URL == "https://cdn"

\* The request body: text that is not JSON, the JSON value null, or a JSON
\* object whose fields are strings, Null where the field is absent.
UploadBody(json, url, mediaType, userId, blockId) ==
    [json |-> json, url |-> url, mediaType |-> mediaType, userId |-> userId,
     blockId |-> blockId]

NotJson == UploadBody("invalid", Null, Null, Null, Null)
JsonNull == UploadBody("null", Null, Null, Null, Null)
UploadRequest(url, mediaType, userId, blockId) ==
    UploadBody("object", url, mediaType, userId, blockId)

MediaRequest(m, auth, b) == [method |-> m, authorization |-> auth, body |-> b]

MediaRequests ==
    {MediaRequest("GET", "Bearer k", UploadRequest("u", "image", "t", "b1")),
     MediaRequest("POST", Null, UploadRequest("u", "image", "t", "b1")),
     MediaRequest("POST", "Bearer x", UploadRequest("u", "image", "t", "b1")),
     MediaRequest("POST", "k", UploadRequest("u", "image", "t", "b1")),
     MediaRequest("GET", Null, NotJson)}
    \cup {MediaRequest("POST", "Bearer k", b) :
            b \in {NotJson, JsonNull,
                   UploadRequest(Null, "image", "t", "b1"),
                   UploadRequest("u", Null, "t", "b1"),
                   UploadRequest("u", "image", Null, "b1"),
                   UploadRequest("u", "image", "t", Null),
                   UploadRequest("", "image", "t", "b1"),
                   UploadRequest("u", "image", "", "b1"),
                   UploadRequest("u", "image", "a/b", "b1"),
                   UploadRequest("u", "image", "a b", "b1"),
                   UploadRequest("u", "audio", "t", "b1"),
                   UploadRequest("u", "audio", "a/b", "b1"),
                   UploadRequest("u", "image", "t", "b1"),
                   UploadRequest("u", "video", "t-1_A", "b1"),
                   UploadRequest("u", "video", "t", "b2")}}

\* The Content-Type headers of the source's answer; Null when there is none.
ContentTypeHeaders == {Null, "image/png", "video/mp4", "text", "image/"}

\* /^[a-zA-Z0-9-_]+$/.test(userId)
UserIdAlphabet ==
    "abcdefghijklmnopqrstuvwxyzABCDEFGHIJKLMNOPQRSTUVWXYZ0123456789-_"

UserIdFormat(userId) ==
    /\ Len(userId) >= 1
    /\ \A i \in 1..Len(userId) : Includes(UserIdAlphabet, SubSeq(userId, i, i))

\* mediaResponse.headers.get("Content-Type") || the default of the media type
ContentType(header, mediaType) ==
    IF ~Falsy(header) THEN header
    ELSE IF mediaType = "image" THEN "image/jpeg" ELSE "video/mp4"

\* contentType.split("/")[1] || the default of the media type
FileExtension(contentType, mediaType) ==
    LET parts == Split(contentType, "/")
    IN  IF Len(parts) >= 2 /\ parts[2] # "" THEN parts[2]
        ELSE IF mediaType = "image" THEN "jpg" ELSE "mp4"

\* `${body.userId}/${body.mediaType}s/${body.blockId}.${fileExtension}`
MediaKey(body, fileExtension) ==
    body.userId \o "/" \o body.mediaType \o "s/" \o body.blockId \o "."
        \o fileExtension

PublicUrl(key) == R2_PUBLIC_URL \o "/" \o key

\* The 200 answer: {success: true, url, key}.
Uploaded(key) ==
    [status |-> 200, success |-> TRUE, message |-> Null, url |-> PublicUrl(key),
     key |-> key]

\* The catch: "Error processing media upload".
UploadFailed == Response(500, FALSE, "Failed to process media upload")

MediaLoc == [body |-> JsonNull, source |-> Null, contentType |-> Null]

\* A request the media worker sent: the fetch of the source or the put.
MediaCall(api, id, outcome) == [api |-> api, id |-> id, outcome |-> outcome]

MediaInit ==
    /\ pc = [h \in Handlers |-> "idle"]
    /\ req = [h \in Handlers |-> MediaRequest(Null, Null, JsonNull)]
    /\ resp = [h \in Handlers |-> NoResp]
    /\ loc = [h \in Handlers |-> MediaLoc]
    /\ calls = [h \in Handlers |-> <<>>]
    /\ kv = [k \in {} |-> Null]
    /\ received = 0
    /\ issued = 0

\* An upload request arrives and a new invocation of fetch starts.
MediaReceive(h) ==
    /\ pc[h] \in {"idle", "done"}
    /\ received < MaxEvents
    /\ \E r \in MediaRequests : req' = [req EXCEPT ![h] = r]
    /\ received' = received + 1
    /\ pc' = [pc EXCEPT ![h] = "media.method"]
    /\ resp' = [resp EXCEPT ![h] = NoResp]
    /\ loc' = [loc EXCEPT ![h] = MediaLoc]
    /\ calls' = [calls EXCEPT ![h] = <<>>]
    /\ UNCHANGED <<kv, issued>>

\* if (request.method !== "POST")
MediaCheckMethod(h) ==
    /\ pc[h] = "media.method"
    /\ IF req[h].method # "POST"
       THEN Return(h, PlainResponse(405, "Method not allowed"))
       ELSE Goto(h, "media.auth")
    /\ UNCHANGED <<req, loc, calls, kv, received, issued>>

\* if (!authHeader || authHeader !== `Bearer ${env.MEDIA_SECRET_KEY}`)
MediaCheckAuthorization(h) ==
    /\ pc[h] = "media.auth"
    /\ IF Falsy(req[h].authorization)
             \/ req[h].authorization # "Bearer " \o MEDIA_SECRET_KEY
       THEN Return(h, PlainResponse(401, "Unauthorized"))
       ELSE Goto(h, "media.json")
    /\ UNCHANGED <<req, loc, calls, kv, received, issued>>

\* const body = await request.json(), inside the try: text that is not
\* JSON makes it throw.
MediaParseBody(h) ==
    /\ pc[h] = "media.json"
    /\ IF req[h].body.json = "invalid"
       THEN /\ Return(h, UploadFailed)
            /\ UNCHANGED loc
       ELSE /\ Goto(h, "media.fields")
            /\ loc' = [loc EXCEPT ![h].body = req[h].body]
    /\ UNCHANGED <<req, calls, kv, received, issued>>

\* if (!body.url || !body.mediaType || !body.userId || !body.blockId):
\* reading a property of null throws.
MediaCheckFields(h) ==
    /\ pc[h] = "media.fields"
    /\ LET body == loc[h].body
       IN  IF body.json = "null" THEN Return(h, UploadFailed)
           ELSE IF Falsy(body.url) \/ Falsy(body.mediaType) \/ Falsy(body.userId)
                     \/ Falsy(body.blockId)
           THEN Return(h, PlainResponse(400,
                    "Missing required fields: url, mediaType, and userId"))
           ELSE Goto(h, "media.userId")
    /\ UNCHANGED <<req, loc, calls, kv, received, issued>>

\* if (!/^[a-zA-Z0-9-_]+$/.test(body.userId))
MediaCheckUserId(h) ==
    /\ pc[h] = "media.userId"
    /\ IF ~UserIdFormat(loc[h].body.userId)
       THEN Return(h, PlainResponse(400, "Invalid userId format"))
       ELSE Goto(h, "media.mediaType")
    /\ UNCHANGED <<req, loc, calls, kv, received, issued>>

\* if (!["image", "video"].includes(body.mediaType))
MediaCheckMediaType(h) ==
    /\ pc[h] = "media.mediaType"
    /\ IF loc[h].body.mediaType \notin {"image", "video"}
       THEN Return(h, PlainResponse(400,
                "Invalid mediaType. Must be \"image\" or \"video\""))
       ELSE Goto(h, "media.fetch")
    /\ UNCHANGED <<req, loc, calls, kv, received, issued>>

\* const mediaResponse = await fetch(body.url); if (!mediaResponse.ok).
\* The fetch is rejected, or answers with a status that is not ok, or
\* answers ok with some Content-Type header.
MediaFetchSource(h) ==
    /\ pc[h] = "media.fetch"
    /\ \E outcome \in {"rejected", "not ok", "ok"} :
          /\ Called(h, MediaCall("fetch", loc[h].body.url, outcome))
          /\ IF outcome = "rejected"
             THEN /\ Return(h, UploadFailed)
                  /\ UNCHANGED loc
             ELSE IF outcome = "not ok"
             THEN /\ Return(h, PlainResponse(502,
                         "Failed to fetch media from provided URL"))
                  /\ UNCHANGED loc
             ELSE /\ Goto(h, "media.put")
                  /\ \E header \in ContentTypeHeaders :
                        loc' = [loc EXCEPT
                                  ![h].source = loc[h].body.url,
                                  ![h].contentType =
                                      ContentType(header, loc[h].body.mediaType)]
    /\ UNCHANGED <<req, kv, received, issued>>

\* await env.MEDIA_CDN.put(key, mediaResponse.body, {httpMetadata}) and the
\* 200 answer; a put the bucket rejects is caught.
MediaPut(h) ==
    /\ pc[h] = "media.put"
    /\ LET body == loc[h].body
           key == MediaKey(body, FileExtension(loc[h].contentType, body.mediaType))
       IN  \E stored \in BOOLEAN :
              /\ Called(h, MediaCall("MEDIA_CDN.put", key,
                                     IF stored THEN "ok" ELSE "rejected"))
              /\ IF stored
                 THEN /\ kv' = [k \in DOMAIN kv \cup {key} |->
                                  IF k = key
                                  THEN [body |-> loc[h].source,
                                        contentType |-> loc[h].contentType]
                                  ELSE kv[k]]
                      /\ issued' = issued + 1
                      /\ Return(h, Uploaded(key))
                 ELSE /\ UNCHANGED <<kv, issued>>
                      /\ Return(h, UploadFailed)
    /\ UNCHANGED <<req, loc, received>>

MediaNext ==
    \E h \in Handlers :
        \/ MediaReceive(h)
        \/ MediaCheckMethod(h)
        \/ MediaCheckAuthorization(h)
        \/ MediaParseBody(h)
        \/ MediaCheckFields(h)
        \/ MediaCheckUserId(h)
        \/ MediaCheckMediaType(h)
        \/ MediaFetchSource(h)
        \/ MediaPut(h)

MediaSpec == MediaInit /\ [][MediaNext]_vars

(***************************************************************************)
(* Vocabulary of the properties.                                           *)
(***************************************************************************)
StatusProperty(h) == loc[h].userData.notionMapping.statusProperty

IgnoreReasons ==
    {MsgEmpty, MsgPublished, MsgUnseen, MsgDraft}
        \cup {MsgInvalid(s) : s \in StatusNames \ {""}}

\* The handler has taken the gating decision: it went on to the put, or it
\* returned one of the gating no-ops.
Decided(h) ==
    \/ pc[h] \in {"put", "blocks", "schemas", "blogCopy", "render"}
    \/ pc[h] = "done"
         /\ (resp[h].message \in IgnoreReasons \/ loc[h].uniqueWebhookId # Null)

BlockCalls(h) == {i \in 1..Len(calls[h]) : calls[h][i].api = "blocks.children.list"}

\* The handler answered with a gating no-op and did nothing else.
Ignored(h) ==
    /\ pc[h] = "done"
    /\ resp[h].status = 200
    /\ resp[h].success
    /\ resp[h].message \in IgnoreReasons
    /\ loc[h].uniqueWebhookId = Null
    /\ BlockCalls(h) = {}

(***************************************************************************)
(* C1.  An event whose status value is the tenant's configured published   *)
(* value is ignored once the status checks have run: the handler returns   *)
(* 200 with success = true and a gating reason, has stored no record and   *)
(* has requested no block, whether or not a record of the page exists.     *)
(***************************************************************************)
C1_PublishedIsIgnored ==
    \A h \in Handlers :
        (/\ loc[h].statusValue # Null
         /\ loc[h].statusValue = StatusProperty(h).published
         /\ pc[h] # "gate")
            => Ignored(h)

\* A published event for a page that has a record was ignored.
C1_Witness ==
    \E h \in Handlers :
        /\ loc[h].statusValue = "Published"
        /\ loc[h].pageExists
        /\ pc[h] = "done"
        /\ resp[h].message = MsgPublished

(***************************************************************************)
(* C2.  When the page has no stored record (pageExists is false) and the   *)
(* status value is the configured republish or published value, the        *)
(* decision is Ignore.                                                     *)
(***************************************************************************)
C2_UnseenRepublishIsIgnored ==
    \A h \in Handlers :
        (/\ Decided(h)
         /\ ~loc[h].pageExists
         /\ loc[h].statusValue \in {StatusProperty(h).republish,
                                    StatusProperty(h).published})
            => Ignored(h)

\* A republish event for an unseen page was ignored for that reason.
C2_Witness ==
    \E h \in Handlers :
        /\ pc[h] = "done"
        /\ ~loc[h].pageExists
        /\ loc[h].statusValue = StatusProperty(h).republish
        /\ loc[h].statusValue # StatusProperty(h).published
        /\ resp[h].message = MsgUnseen

(***************************************************************************)
(* C3.  When the page already has a stored record (pageExists is true) and *)
(* the status value is the configured draft value, the decision is Ignore. *)
(***************************************************************************)
C3_ExistingDraftIsIgnored ==
    \A h \in Handlers :
        (/\ Decided(h)
         /\ loc[h].pageExists
         /\ loc[h].statusValue = StatusProperty(h).draft)
            => Ignored(h)

\* A draft event for a page with a record was ignored for that reason.
C3_Witness ==
    \E h \in Handlers :
        /\ pc[h] = "done"
        /\ loc[h].pageExists
        /\ loc[h].statusValue = StatusProperty(h).draft
        /\ resp[h].message = MsgDraft

(***************************************************************************)
(* C4.  The status checks are the six ordered rules, first match wins: the *)
(* handler returns the reason of the lowest-numbered rule that matches     *)
(* (1 empty status, 2 published, 3 unseen page with republish/published,   *)
(* 4 existing page with draft, 5 unrecognized value) and goes on to the    *)
(* put only when none of rules 1-5 matches, for every existence flag,      *)
(* status value and status mapping.                                        *)
(***************************************************************************)
RuleMatches(i, existsAlready, statusValue, mapping) ==
    CASE i = 1 -> statusValue \in {Null, ""}
      [] i = 2 -> statusValue = mapping.published
      [] i = 3 -> ~existsAlready /\ statusValue \in {mapping.republish, mapping.published}
      [] i = 4 -> existsAlready /\ statusValue = mapping.draft
      [] i = 5 -> statusValue \notin {mapping.draft, mapping.published, mapping.republish}
      [] OTHER -> TRUE

FirstRule(existsAlready, statusValue, mapping) ==
    LET matching == {i \in 1..6 : RuleMatches(i, existsAlready, statusValue, mapping)}
    IN  CHOOSE i \in matching : \A j \in matching : i <= j

RuleReason(i, statusValue) ==
    CASE i = 1 -> MsgEmpty
      [] i = 2 -> MsgPublished
      [] i = 3 -> MsgUnseen
      [] i = 4 -> MsgDraft
      [] i = 5 -> MsgInvalid(statusValue)
      [] OTHER -> Proceed

C4_GateIsTheOrderedRules ==
    \A h \in Handlers :
        Decided(h) =>
            LET rule == FirstRule(loc[h].pageExists, loc[h].statusValue, StatusProperty(h))
            IN  IF rule = 6
                THEN pc[h] = "put"
                ELSE pc[h] = "done"
                       /\ resp[h] = Response(200, TRUE, RuleReason(rule, loc[h].statusValue))

\* An input that matches rules 2 and 3 at once was answered with rule 2's reason.
C4_Witness ==
    \E h \in Handlers :
        /\ pc[h] = "done"
        /\ ~loc[h].pageExists
        /\ loc[h].statusValue = StatusProperty(h).published
        /\ loc[h].statusValue = StatusProperty(h).republish
        /\ resp[h].message = MsgPublished

(***************************************************************************)
(* C5.  A page is processed past the gate with the republish (or           *)
(* published) status only if an earlier event of the same tenant for the   *)
(* same page passed the gate and stored a record that the existence check  *)
(* found retained.                                                         *)
(***************************************************************************)
\* The handler went past the status checks.
PastGate(h) ==
    pc[h] \in {"put", "blocks", "schemas", "blogCopy", "render"}
        \/ loc[h].uniqueWebhookId # Null

\* The keys the existence check listed that belong to records stored for
\* exactly this tenant and exactly this page.
OwnRecordKeys(h) ==
    {k \in loc[h].keys :
        \E n \in 1..issued :
            k = WebhookKey(loc[h].userId, loc[h].pageId, RandomUUID(n))}

C5_RepublishOnlyAfterOwnRecord ==
    \A h \in Handlers :
        (PastGate(h) /\ loc[h].statusValue \in {StatusProperty(h).republish,
                                                 StatusProperty(h).published})
            => OwnRecordKeys(h) # {}

(***************************************************************************)
(* C6.  A record keyed by tenant, page and a fresh event id is written     *)
(* exactly when the decision is Proceed: the step that leaves the gate     *)
(* goes to the put exactly when no Ignore rule matches; the put adds one   *)
(* record under a key not used before and nothing else; no other step of   *)
(* any handler writes or removes a record, so the record stays whatever    *)
(* the later outcome; and a block is requested only after the record was   *)
(* written.                                                                *)
(***************************************************************************)
C6_Order ==
    \A h \in Handlers :
        (BlockCalls(h) # {} \/ pc[h] \in {"blocks", "schemas", "blogCopy", "render"})
            => loc[h].uniqueWebhookId # Null

C6_Step ==
    \A h \in Handlers :
        /\ (pc[h] = "gate" /\ pc'[h] # "gate") =>
              (pc'[h] = "put" <=>
                  FirstRule(loc[h].pageExists, loc[h].statusValue, StatusProperty(h)) = 6)
        /\ pc'[h] = "put" => pc[h] \in {"gate", "put"}
        /\ (pc[h] = "put" /\ pc'[h] # "put") =>
              LET key == WebhookKey(loc[h].userId, loc[h].pageId,
                                    loc'[h].uniqueWebhookId)
              IN  /\ loc'[h].uniqueWebhookId # Null
                  /\ key \notin DOMAIN kv
                  /\ DOMAIN kv' = DOMAIN kv \cup {key}
                  /\ \A k \in DOMAIN kv : kv'[k] = kv[k]
                  /\ kv'[key].userId = loc[h].userId
                  /\ kv'[key].pageId = loc[h].pageId
                  /\ kv'[key].status = loc[h].statusValue
        /\ (pc[h] # "put" /\ pc'[h] # pc[h]) => kv' = kv

C6_RecordWrittenExactlyOnProceed == []C6_Order /\ [][C6_Step]_vars

\* The upstream failed after the put and the record is still stored.
C6_Witness ==
    \E h \in Handlers :
        /\ pc[h] = "done"
        /\ resp[h] = RetrieveFailed
        /\ loc[h].uniqueWebhookId # Null
        /\ WebhookKey(loc[h].userId, loc[h].pageId, loc[h].uniqueWebhookId)
              \in DOMAIN kv

(***************************************************************************)
(* C7.  A non-POST request gets 405, a malformed path 400, an unknown      *)
(* tenant 404, a missing signature header 400 and a signature mismatch     *)
(* 403, and in none of these cases is a record stored or the upstream      *)
(* called.                                                                 *)
(***************************************************************************)
WellFormedPaths == {"/notion-webhook/" \o u : u \in {"t", "n", "z"}}

TenantOf(r) == SubSeq(r.pathname, Len("/notion-webhook/") + 1, Len(r.pathname))

KnownTenant(r) == ("user:" \o TenantOf(r)) \in DOMAIN NOTION_CMS_USERS

SecretOf(r) == NOTION_CMS_USERS["user:" \o TenantOf(r)].verificationSecret

\* The status the response table gives a request, 0 when it is neither a
\* client-input nor an authentication failure.
RejectionStatus(r) ==
    CASE r.method # "POST" -> 405
      [] r.method = "POST" /\ r.pathname \notin WellFormedPaths -> 400
      [] r.method = "POST" /\ r.pathname \in WellFormedPaths /\ ~KnownTenant(r) -> 404
      [] r.method = "POST" /\ r.pathname \in WellFormedPaths /\ KnownTenant(r)
            /\ r.signature = Null -> 400
      [] r.method = "POST" /\ r.pathname \in WellFormedPaths /\ KnownTenant(r)
            /\ r.signature # Null /\ r.signature # SignedBy(SecretOf(r), r.body) -> 403
      [] OTHER -> 0

C7_RejectionsAre4xxWithoutEffects ==
    \A h \in Handlers :
        (pc[h] = "done" /\ RejectionStatus(req[h]) # 0) =>
            /\ resp[h].status = RejectionStatus(req[h])
            /\ loc[h].uniqueWebhookId = Null
            /\ calls[h] = <<>>

(***************************************************************************)
(* C8.  The body is verified as the raw text received, before any JSON     *)
(* parsing: the handler parses the body, and looks at the payload's type   *)
(* and entity, only when the signature check of that very text returned    *)
(* true; after a check that returned false nothing was parsed.             *)
(***************************************************************************)
C8_VerifiedBeforeParsed ==
    \A h \in Handlers :
        /\ (\/ pc[h] \in {"parse", "type", "entity", "exists", "status", "gate", "put",
                          "blocks", "schemas", "blogCopy", "render"}
            \/ loc[h].payload # NoPayload
            \/ resp[h] = ProcessFailed)
              => /\ loc[h].isTrustedPayload
                 /\ loc[h].body = req[h].body
                 /\ req[h].signature =
                        SignedBy(loc[h].userData.verificationSecret, req[h].body)
        /\ (pc[h] = "done" /\ resp[h].status = 403) => loc[h].payload = NoPayload

\* One handler parsed a verified body while the other refused a bad signature.
C8_Witness ==
    \E h, g \in Handlers :
        /\ pc[h] = "type"
        /\ loc[h].isTrustedPayload
        /\ loc[h].payload # NoPayload
        /\ pc[g] = "done"
        /\ resp[g].status = 403

(***************************************************************************)
(* C9.  The children of a section are fetched page by page to exhaustion:  *)
(* the first request carries no cursor, every further request carries the  *)
(* cursor the previous page returned, the results are appended in order,   *)
(* and the loop ends only when a page comes without a cursor, so that the  *)
(* collected blocks are exactly the section's children in their order.     *)
(***************************************************************************)
IsPrefixOf(xs, ys) == Len(xs) <= Len(ys) /\ xs = SubSeq(ys, 1, Len(xs))

Succeeded(h) == pc[h] = "done" /\ resp[h].message = "Webhook processed successfully"

\* The indices of the requests for the children of block id, in order.
RequestsFor(h, id) == {i \in BlockCalls(h) : calls[h][i].id = id}

C9_SectionsPaginatedToExhaustion ==
    \A h \in Handlers :
        /\ (pc[h] \in {"blogCopy", "render"} \/ Succeeded(h)) =>
              loc[h].schemaBlocks = ChildrenOf(loc[h].schemasBlock.id)
        /\ (pc[h] = "render" \/ Succeeded(h)) =>
              loc[h].blogCopyBlocks = ChildrenOf(loc[h].blogCopyBlock.id)
        /\ pc[h] = "schemas" =>
              IsPrefixOf(loc[h].schemaBlocks, ChildrenOf(loc[h].schemasBlock.id))
        /\ pc[h] = "blogCopy" =>
              IsPrefixOf(loc[h].blogCopyBlocks, ChildrenOf(loc[h].blogCopyBlock.id))
        /\ \A i \in BlockCalls(h) :
              LET id == calls[h][i].id
                  earlier == {j \in RequestsFor(h, id) : j < i}
              IN  IF earlier = {}
                  THEN calls[h][i].cursor = Null
                  ELSE /\ i - 1 \in earlier
                       /\ calls[h][i].cursor # Null
                       /\ calls[h][i].cursor =
                            BlocksChildrenList(id, calls[h][i - 1].cursor,
                                               PageSize).next_cursor

\* Three pages of two blocks each were fetched and gave six blocks.
C9_Witness ==
    \E h \in Handlers :
        /\ pc[h] = "render"
        /\ Len(loc[h].blogCopyBlocks) = 6
        /\ Cardinality(RequestsFor(h, loc[h].blogCopyBlock.id)) = 3

(***************************************************************************)
(* C10.  Every collection retrieved while handling an event is exhausted   *)
(* before it is used: the two sections' children, the root's direct        *)
(* children, and the children of every list item the traversal descends    *)
(* into.                                                                   *)
(***************************************************************************)
RECURSIVE Kept(_)
Kept(blocks) ==
    IF blocks = <<>> THEN <<>>
    ELSE (IF Skipped(Head(blocks)) THEN <<>> ELSE <<Head(blocks).id>>)
            \o Kept(Tail(blocks))

\* Every processed list item that has children has all the renderable
\* children of its block.
RECURSIVE ChildrenComplete(_)
ChildrenComplete(processed) ==
    \A i \in 1..Len(processed) :
        processed[i].children.isNull
            \/ (/\ [j \in 1..Len(processed[i].children.items) |->
                        processed[i].children.items[j].blockID]
                      = Kept(ChildrenOf(processed[i].blockID))
                /\ ChildrenComplete(processed[i].children.items))

\* The listing of the root's children came back and was searched.
RootListed(h) ==
    \/ pc[h] \in {"schemas", "blogCopy", "render"}
    \/ pc[h] = "done" /\ BlockCalls(h) # {}
         /\ (resp[h] # RetrieveFailed \/ Cardinality(BlockCalls(h)) > 1)

C10_EveryCollectionExhausted ==
    \A h \in Handlers :
        /\ RootListed(h) => loc[h].pageBlocks = ChildrenOf(loc[h].pageId)
        /\ (pc[h] = "render" \/ Succeeded(h)) =>
              /\ loc[h].schemaBlocks = ChildrenOf(loc[h].schemasBlock.id)
              /\ loc[h].blogCopyBlocks = ChildrenOf(loc[h].blogCopyBlock.id)
        /\ Succeeded(h) => ChildrenComplete(loc[h].processedBlocks)

(***************************************************************************)
(* C11.  The traversal descends at most 4 levels below a top-level block:  *)
(* of a list nested 6 levels deep below a top-level item the processed     *)
(* tree holds exactly the first 4 levels of children; a block at depth 4   *)
(* has null children whatever its has_children says, no request for its    *)
(* children or for those of any deeper block is sent, and the event still  *)
(* ends in the success response.                                           *)
(***************************************************************************)
\* The processed blocks d levels below the blocks of a forest, in order.
RECURSIVE NodesAt(_, _)
NodesAt(items, d) ==
    IF d = 0 \/ items = <<>> THEN items
    ELSE NodesAt(Head(items).children.items, d - 1) \o NodesAt(Tail(items), d)

BlockIds(items) == [i \in 1..Len(items) |-> items[i].blockID]

\* The chain of first children below the top-level item a.b.1: six levels.
NestedChain ==
    <<"a.b.1.1", "a.b.1.1.1", "a.b.1.1.1.1", "a.b.1.1.1.1.1",
      "a.b.1.1.1.1.1.1", "a.b.1.1.1.1.1.1.1">>

\* The traversal ran: a children request of a list item was sent.
Traversed(h) ==
    pc[h] = "done" /\ \E i \in BlockCalls(h) : calls[h][i].id = "a.b.1"

C11_DepthCappedAtFour ==
    \A h \in Handlers :
        /\ Traversed(h) => Succeeded(h)
        /\ Succeeded(h) =>
              LET tree == loc[h].processedBlocks
                  atCap == NodesAt(tree, 4)
              IN  /\ NodesAt(tree, 5) = <<>>
                  /\ \A i \in 1..Len(atCap) :
                        /\ atCap[i].children.isNull
                        /\ RequestsFor(h, atCap[i].blockID) = {}
                  /\ \A d \in 5..6 : RequestsFor(h, NestedChain[d]) = {}
                  /\ (loc[h].pageId = "a"
                        /\ \A i \in BlockCalls(h) :
                              (calls[h][i].id = "a.b.1"
                                  \/ \E d \in 1..6 : calls[h][i].id = NestedChain[d])
                                    => ~calls[h][i].threw) =>
                        \A d \in 1..4 : NestedChain[d] \in
                            {BlockIds(NodesAt(tree, d))[j] :
                                j \in 1..Len(NodesAt(tree, d))}

\* The item at depth 4 reports children upstream and was emitted without any.
C11_Witness ==
    \E h \in Handlers :
        /\ Succeeded(h)
        /\ LET atCap == NodesAt(loc[h].processedBlocks, 4)
           IN  /\ Len(atCap) = 1
               /\ atCap[1].blockID = "a.b.1.1.1.1.1"
               /\ atCap[1].children.isNull
               /\ ChildrenOf("a.b.1.1.1.1")[1].has_children
               /\ ChildrenOf(atCap[1].blockID) # <<>>

(***************************************************************************)
(* C12.  A block whose type is outside the allow-list is absent from the   *)
(* processed blocks at every depth: the processed blocks of a sequence are *)
(* its blocks of an allowed type, one entry each, in their order, and no   *)
(* children request is sent for a block of another type.                   *)
(***************************************************************************)
RECURSIVE AllowedIds(_)
AllowedIds(blocks) ==
    IF blocks = <<>> THEN <<>>
    ELSE (IF Head(blocks).type \in ALLOWED_BLOCK_TYPES
          THEN <<Head(blocks).id>> ELSE <<>>) \o AllowedIds(Tail(blocks))

\* processed is what the allow-list leaves of source, here and below.
RECURSIVE OnlyAllowed(_, _, _)
OnlyAllowed(h, processed, source) ==
    /\ BlockIds(processed) = AllowedIds(source)
    /\ \A i \in 1..Len(source) :
          source[i].type \notin ALLOWED_BLOCK_TYPES => RequestsFor(h, source[i].id) = {}
    /\ \A i \in 1..Len(processed) :
          /\ processed[i].type \in ALLOWED_BLOCK_TYPES
          /\ processed[i].children.isNull
                \/ OnlyAllowed(h, processed[i].children.items,
                               ListItemChildren(processed[i].blockID))

C12_UnknownKindsAreAbsent ==
    \A h \in Handlers :
        Succeeded(h) => OnlyAllowed(h, loc[h].processedBlocks, loc[h].blogCopyBlocks)

\* A section with an unsupported block between supported ones, and a list
\* item whose fetched children start with an unsupported block.
C12_Witness ==
    \E h \in Handlers :
        /\ Succeeded(h)
        /\ \E i \in 1..Len(loc[h].blogCopyBlocks) :
              /\ loc[h].blogCopyBlocks[i].type = "unsupported_x"
              /\ loc[h].blogCopyBlocks[i].has_children
              /\ 1 < i
              /\ i < Len(loc[h].blogCopyBlocks)
        /\ \E j \in 1..Len(loc[h].processedBlocks) :
              /\ loc[h].processedBlocks[j].blockID = "a.b.6"
              /\ BlockIds(loc[h].processedBlocks[j].children.items) = <<"a.b.6.1">>

(***************************************************************************)
(* C13.  A failing children request of a list item is recovered at that    *)
(* item: the item is emitted with null children, every other block of the  *)
(* tree is what it is in a run without the failure, and the event ends in  *)
(* the 200 success response.                                               *)
(***************************************************************************)
\* The processed blocks of a forest down to the depth cap.
AllNodes(tree) ==
    UNION {{NodesAt(tree, d)[i] : i \in 1..Len(NodesAt(tree, d))} : d \in 0..4}

\* The items whose children were requested and did not arrive.
FailedItems(h) ==
    {n.blockID : n \in {m \in AllNodes(loc[h].processedBlocks) :
                            m.children.isNull /\ RequestsFor(h, m.blockID) # {}}}

\* tree is clean with the children of the failed items taken away.
RECURSIVE Recovered(_, _, _)
Recovered(tree, clean, failed) ==
    /\ Len(tree) = Len(clean)
    /\ \A i \in 1..Len(tree) :
          /\ tree[i].blockID = clean[i].blockID
          /\ tree[i].type = clean[i].type
          /\ tree[i].content = clean[i].content
          /\ IF tree[i].blockID \in failed
             THEN tree[i].children.isNull
             ELSE \/ tree[i] = clean[i]
                  \/ /\ ~tree[i].children.isNull
                     /\ ~clean[i].children.isNull
                     /\ Recovered(tree[i].children.items, clean[i].children.items,
                                  failed)

C13_ChildFetchFailureIsLocal ==
    \A h \in Handlers :
        /\ (pc[h] = "done" /\ \E i \in BlockCalls(h) : calls[h][i].id \in Failable)
              => Succeeded(h)
        /\ Succeeded(h) =>
              /\ resp[h].status = 200
              /\ resp[h].processedBlocks = loc[h].processedBlocks
              /\ Recovered(loc[h].processedBlocks,
                           processBlocksRecursively(loc[h].blogCopyBlocks, 0, {}),
                           FailedItems(h))

\* The request for the children of a nested item failed, and those of its
\* sibling subtree a.b.6 arrived.
C13_Witness ==
    \E h \in Handlers :
        /\ Succeeded(h)
        /\ FailedItems(h) = {"a.b.1.1"}
        /\ \E j \in 1..Len(loc[h].processedBlocks) :
              /\ loc[h].processedBlocks[j].blockID = "a.b.6"
              /\ ~loc[h].processedBlocks[j].children.isNull

(***************************************************************************)
(* C14.  generateCompleteHtml compresses runs and keeps the order: every   *)
(* maximal run of consecutive top-level items of one list type becomes one *)
(* container (ul for bulleted, ol for numbered) with one li per item in    *)
(* order, every other block is its own fragment in place, and two runs     *)
(* with anything between them are never merged.                            *)
(***************************************************************************)
\* A run starts at i: a block that is no list item, or a list item that
\* does not continue the type of the block before it.
RunStart(items, i) ==
    \/ ~IsListItem(items[i].type)
    \/ i = 1
    \/ items[i - 1].type # items[i].type

\* The last index of the run that starts at i.
LastOfRun(items, i) ==
    CHOOSE j \in i..Len(items) :
        /\ \A k \in (i + 1)..j : ~RunStart(items, k)
        /\ j = Len(items) \/ RunStart(items, j + 1)

RECURSIVE ListEntries(_, _, _)
ListEntries(items, i, j) ==
    IF i > j THEN ""
    ELSE "<li>" \o items[i].content \o "</li>" \o ListEntries(items, i + 1, j)

ContainerTag(type) == IF type = "bulleted_list_item" THEN "ul" ELSE "ol"

\* The fragments of items[i..]: one per run start.
RECURSIVE RunFragments(_, _)
RunFragments(items, i) ==
    IF i > Len(items) THEN <<>>
    ELSE (IF ~RunStart(items, i) THEN <<>>
          ELSE IF IsListItem(items[i].type)
          THEN <<"<" \o ContainerTag(items[i].type) \o ">"
                    \o ListEntries(items, i, LastOfRun(items, i))
                    \o "</" \o ContainerTag(items[i].type) \o ">">>
          ELSE <<items[i].html>>)
         \o RunFragments(items, i + 1)

Childless(items) == \A i \in 1..Len(items) : items[i].children.isNull

C14_AssemblyIsRunCompression ==
    \A h \in Handlers :
        (Succeeded(h) /\ Childless(loc[h].processedBlocks)) =>
            resp[h].completeHtml = Join(RunFragments(loc[h].processedBlocks, 1), "\n")

\* [bullet a, bullet b, paragraph c, bullet d] gave ul(a, b), the paragraph
\* and ul(d).
C14_Witness ==
    \E h \in Handlers :
        /\ Succeeded(h)
        /\ [i \in 1..Len(loc[h].processedBlocks) |-> loc[h].processedBlocks[i].type]
              = <<"bulleted_list_item", "bulleted_list_item", "paragraph",
                  "bulleted_list_item">>
        /\ resp[h].completeHtml
              = "<ul><li>a</li><li>b</li></ul>\n<p>c</p>\n<ul><li>d</li></ul>"

(***************************************************************************)
(* C15.  A rich-text run's markup nests in one fixed order whatever flags  *)
(* are set: code innermost, then bold, italic, strikethrough, underline,   *)
(* and the link outermost; a flag that is not set adds no tag.             *)
(***************************************************************************)
\* The opening tags from the outside in, and the closing tags from the
\* inside out.
OpeningTags(run) ==
    (IF run.href # Null THEN "<a href=\"" \o run.href \o "\">" ELSE "")
        \o (IF "underline" \in run.annotations THEN "<u>" ELSE "")
        \o (IF "strikethrough" \in run.annotations THEN "<s>" ELSE "")
        \o (IF "italic" \in run.annotations THEN "<em>" ELSE "")
        \o (IF "bold" \in run.annotations THEN "<strong>" ELSE "")
        \o (IF "code" \in run.annotations THEN "<code>" ELSE "")

ClosingTags(run) ==
    (IF "code" \in run.annotations THEN "</code>" ELSE "")
        \o (IF "bold" \in run.annotations THEN "</strong>" ELSE "")
        \o (IF "italic" \in run.annotations THEN "</em>" ELSE "")
        \o (IF "strikethrough" \in run.annotations THEN "</s>" ELSE "")
        \o (IF "underline" \in run.annotations THEN "</u>" ELSE "")
        \o (IF run.href # Null THEN "</a>" ELSE "")

HeadingNamed(blocks, name) ==
    \E i \in 1..Len(blocks) :
        /\ blocks[i].type = "heading_1"
        /\ blocks[i].rich_text # <<>>
        /\ blocks[i].rich_text[1].type = "text"
        /\ blocks[i].rich_text[1].content = name

SectionThere(h, section) ==
    HeadingNamed(ChildrenOf(loc[h].pageId),
                 loc[h].userData.notionMapping.parentBlocks[section])

\* The listing of the root's children was answered.
RootAnswered(h) ==
    \E i \in BlockCalls(h) : calls[h][i].id = loc[h].pageId /\ ~calls[h][i].threw

MissingAnswer(h) ==
    /\ pc[h] = "done"
    /\ resp[h].status = 200
    /\ resp[h].success
    /\ StartsWith(resp[h].message, "Missing required sections: ")

C16_MissingSectionsAreNamed ==
    \A h \in Handlers :
        /\ (RootAnswered(h) /\ ~(SectionThere(h, "schemas") /\ SectionThere(h, "blogCopy")))
              => /\ MissingAnswer(h)
                 /\ Cardinality(BlockCalls(h)) = 1
                 /\ loc[h].processedBlocks = <<>>
        /\ MissingAnswer(h) =>
              /\ Includes(resp[h].message, "Blog Copy") <=> ~SectionThere(h, "blogCopy")
              /\ Includes(resp[h].message, "Schemas") <=> ~SectionThere(h, "schemas")

(***************************************************************************)
(* C17.  A rejected upstream request that is not a list item's children    *)
(* request (the status property, the root's children, a page of a          *)
(* section's children) ends the event: the response is 500 with success    *)
(* false, no further request is sent, and nothing is rendered; the other   *)
(* handler goes on.                                                        *)
(***************************************************************************)
\* The call is the status lookup, the root listing or a section page.
RetrievalCall(h, c) ==
    \/ c.api = "pages.properties.retrieve"
    \/ c.api = "blocks.children.list"
         /\ c.id \in {loc[h].pageId, loc[h].schemasBlock.id, loc[h].blogCopyBlock.id}

FatalFailure(h) ==
    \E i \in 1..Len(calls[h]) : calls[h][i].threw /\ RetrievalCall(h, calls[h][i])

C17_RetrievalFailureIsFatal ==
    \A h \in Handlers :
        \A i \in 1..Len(calls[h]) :
            (calls[h][i].threw /\ RetrievalCall(h, calls[h][i])) =>
                /\ pc[h] = "done"
                /\ resp[h] = Response(500, FALSE, resp[h].message)
                /\ i = Len(calls[h])
                /\ loc[h].processedBlocks = <<>>

\* A page of the Blog Copy section was rejected for one handler after an
\* earlier page had arrived, while the other handler's event succeeded.
C17_Witness ==
    \E h, g \in Handlers :
        /\ FatalFailure(h)
        /\ calls[h][Len(calls[h])].id = loc[h].blogCopyBlock.id
        /\ calls[h][Len(calls[h])].cursor # Null
        /\ resp[h].status = 500
        /\ Succeeded(g)

(***************************************************************************)
(* C18.  The raw body is authenticated before the tenant's mapping is      *)
(* consulted: a handler that has tested the mapping, and so every handler  *)
(* that answered 'No notion mapping configured', holds a request whose     *)
(* signature was verified.                                                 *)
(***************************************************************************)
NoMappingAnswer(h) ==
    /\ pc[h] = "done"
    /\ resp[h].message = "No notion mapping configured - ignoring webhook"

\* The handler is past the test of userData.notionMapping.
MappingConsulted(h) ==
    \/ NoMappingAnswer(h)
    \/ pc[h] \in {"signature", "validate", "parse", "type", "entity", "exists",
                  "status", "gate", "put", "blocks", "schemas", "blogCopy", "render"}

C18_AuthenticatedBeforeMapping ==
    \A h \in Handlers :
        MappingConsulted(h) =>
            /\ loc[h].isTrustedPayload
            /\ req[h].signature = SignedBy(loc[h].userData.verificationSecret, req[h].body)

(***************************************************************************)
(* C19.  Inside a list the children of an item are assembled by the rule   *)
(* of the top level: every maximal run of children of one list type is one *)
(* nested container tagged by that run's type, and a child that is no      *)
(* list item is its own fragment, so that the children of mixed types are  *)
(* not put into one container tagged by the first child's type.            *)
(***************************************************************************)
\* The assembly of items by the run rule at every level; the fragments of
\* the top level are joined by sep, those of nested levels follow each other.
RECURSIVE GroupedEntries(_, _, _)
RECURSIVE GroupedFragments(_, _)
GroupedEntries(items, i, j) ==
    IF i > j THEN ""
    ELSE "<li>" \o items[i].content
            \o (IF items[i].children.isNull THEN ""
                ELSE Join(GroupedFragments(items[i].children.items, 1), ""))
            \o "</li>" \o GroupedEntries(items, i + 1, j)

GroupedFragments(items, i) ==
    IF i > Len(items) THEN <<>>
    ELSE (IF ~RunStart(items, i) THEN <<>>
          ELSE IF IsListItem(items[i].type)
          THEN <<"<" \o ContainerTag(items[i].type) \o ">"
                    \o GroupedEntries(items, i, LastOfRun(items, i))
                    \o "</" \o ContainerTag(items[i].type) \o ">">>
          ELSE <<items[i].html>>)
         \o GroupedFragments(items, i + 1)

C19_NestedRunsGroupedByKind ==
    \A h \in Handlers :
        Succeeded(h) =>
            resp[h].completeHtml = Join(GroupedFragments(loc[h].processedBlocks, 1), "\n")

(***************************************************************************)
(* C20.  A section is located only among the root's direct children and    *)
(* only by a heading whose first run's text is exactly the configured      *)
(* name; a heading that differs in case, holds the name as a part or in a  *)
(* later run does not count, and a root heading with no run is a           *)
(* non-match, not an error.                                                *)
(***************************************************************************)
\* The block is a root child and a heading whose first run is the name.
LocatedBy(h, block, name) ==
    \E i \in 1..Len(ChildrenOf(loc[h].pageId)) :
        /\ ChildrenOf(loc[h].pageId)[i] = block
        /\ block.type = "heading_1"
        /\ block.rich_text # <<>>
        /\ block.rich_text[1].type = "text"
        /\ block.rich_text[1].content = name

NoCallThrew(h) == \A i \in 1..Len(calls[h]) : ~calls[h][i].threw

C20_SectionsMatchedExactly ==
    \A h \in Handlers :
        LET parentBlocks == loc[h].userData.notionMapping.parentBlocks
        IN  /\ loc[h].schemasBlock # NoBlock =>
                  LocatedBy(h, loc[h].schemasBlock, parentBlocks.schemas)
            /\ loc[h].blogCopyBlock # NoBlock =>
                  LocatedBy(h, loc[h].blogCopyBlock, parentBlocks.blogCopy)
            /\ (pc[h] = "done" /\ RootAnswered(h) /\ NoCallThrew(h)) =>
                  resp[h].status = 200

(***************************************************************************)
(* C21.  The existence check is advisory: two handlers working on events   *)
(* for the same page that was never seen, with the draft status, may both  *)
(* read 'no record' and both go on; then each stores its record under a    *)
(* key of its own, no handler's step changes or removes a record that is   *)
(* in the store, and each handler gets its own complete response.          *)
(***************************************************************************)
OwnKey(h) == WebhookKey(loc[h].userId, loc[h].pageId, loc[h].uniqueWebhookId)

\* The handler stored a record in this invocation.
Stored(h) == loc[h].uniqueWebhookId # Null

C21_Distinct ==
    \A h, g \in Handlers :
        /\ (h # g /\ Stored(h) /\ Stored(g)) => OwnKey(h) # OwnKey(g)
        /\ (Stored(h) /\ OwnKey(h) \in DOMAIN kv) =>
              /\ kv[OwnKey(h)].uniqueWebhookId = loc[h].uniqueWebhookId
              /\ kv[OwnKey(h)].pageId = loc[h].pageId
              /\ kv[OwnKey(h)].userId = loc[h].userId
              /\ kv[OwnKey(h)].status = loc[h].statusValue
        /\ Succeeded(h) =>
              /\ resp[h].pageId = loc[h].pageId
              /\ resp[h].userId = loc[h].userId
              /\ resp[h].processedBlocks = loc[h].processedBlocks

\* A step of a handler leaves every stored record as it is.
C21_Step ==
    (pc' # pc \/ loc' # loc \/ calls' # calls) =>
        \A k \in DOMAIN kv : k \in DOMAIN kv' /\ kv'[k] = kv[k]

C21_ConcurrentDuplicatesBothStored == []C21_Distinct /\ [][C21_Step]_vars

\* Both handlers read 'no record' for page "a" with status Draft, both
\* succeeded, and both records are in the store.
C21_Witness ==
    \E h, g \in Handlers :
        /\ h # g
        /\ Succeeded(h) /\ Succeeded(g)
        /\ loc[h].pageId = "a" /\ loc[g].pageId = "a"
        /\ loc[h].userId = loc[g].userId
        /\ loc[h].statusValue = "Draft" /\ loc[g].statusValue = "Draft"
        /\ ~loc[h].pageExists /\ ~loc[g].pageExists
        /\ OwnKey(h) # OwnKey(g)
        /\ {OwnKey(h), OwnKey(g)} \subseteq DOMAIN kv

(***************************************************************************)
(* C22.  The existence flag of page P of tenant T is true only if a record *)
(* stored for exactly tenant T and exactly page P was listed; the records  *)
(* of another page or tenant, also of one whose id starts with P or T,     *)
(* never make it true.                                                     *)
(***************************************************************************)
\* The key was written for this tenant and this page.
KeyOf(k, userId, pageId) ==
    \E n \in 1..issued : k = WebhookKey(userId, pageId, RandomUUID(n))

C22_ExistenceIsPerPageAndTenant ==
    \A h \in Handlers :
        /\ loc[h].pageExists =>
              \E k \in loc[h].keys : KeyOf(k, loc[h].userId, loc[h].pageId)
        /\ \A k \in loc[h].keys : KeyOf(k, loc[h].userId, loc[h].pageId)

(***************************************************************************)
(* C23.  Handling an event ends with exactly one response: a handler that  *)
(* has started reaches its end, it has a response exactly when it is at    *)
(* its end, and the response is set once.  The traversal ends also on a    *)
(* list every item of which reports has_children, since no children are    *)
(* requested below depth 4.                                                *)
(***************************************************************************)
Running(h) == pc[h] \notin {"idle", "done"}

C23_OneResponse ==
    \A h \in Handlers :
        /\ (pc[h] = "done") <=> (resp[h] # NoResp)
        /\ Cardinality(RequestsFor(h, "f.1")) <= 4

C23_ResponseSetOnce ==
    \A h \in Handlers :
        resp'[h] # resp[h] => (pc[h] # "done" /\ pc'[h] = "done" /\ resp[h] = NoResp)

C23_EveryEventTerminates ==
    /\ \A h \in Handlers : Running(h) ~> (pc[h] = "done")
    /\ []C23_OneResponse
    /\ [][C23_ResponseSetOnce]_vars

\* The endless list was rendered: four requests for children, the item at
\* depth 4 without children.
C23_Witness ==
    \E h \in Handlers :
        /\ Succeeded(h)
        /\ loc[h].pageId = "f"
        /\ Cardinality(RequestsFor(h, "f.1")) = 4
        /\ Len(NodesAt(loc[h].processedBlocks, 4)) = 1
        /\ NodesAt(loc[h].processedBlocks, 4)[1].children.isNull

(***************************************************************************)
(* C24.  The media worker writes an object only after every guard has      *)
(* passed, in order: POST, the bearer secret, the four fields present, the *)
(* userId's characters, the media type, a successful fetch of the source;  *)
(* a request failing a guard is answered 405, 401, 400 or 502 respectively *)
(* and writes nothing.                                                     *)
(***************************************************************************)
Written(h) ==
    \E i \in DOMAIN calls[h] :
        calls[h][i].api = "MEDIA_CDN.put" /\ calls[h][i].outcome = "ok"

SourceFetched(h) ==
    \E i \in DOMAIN calls[h] :
        calls[h][i].api = "fetch" /\ calls[h][i].outcome = "ok"

SourceFailed(h) ==
    \E i \in DOMAIN calls[h] :
        calls[h][i].api = "fetch" /\ calls[h][i].outcome # "ok"

FieldsPresent(b) ==
    /\ b.json = "object"
    /\ ~Falsy(b.url) /\ ~Falsy(b.mediaType) /\ ~Falsy(b.userId) /\ ~Falsy(b.blockId)

BodyAccepted(b) ==
    FieldsPresent(b) /\ UserIdFormat(b.userId) /\ b.mediaType \in {"image", "video"}

\* The answer the first failing guard calls for, 0 when no guard fails.
GuardStatus(h) ==
    IF req[h].method # "POST" THEN 405
    ELSE IF req[h].authorization # "Bearer " \o MEDIA_SECRET_KEY THEN 401
    ELSE IF ~BodyAccepted(req[h].body) THEN 400
    ELSE IF SourceFailed(h) THEN 502
    ELSE 0

C24_WritesOnlyAfterEveryGuard ==
    \A h \in Handlers :
        /\ Written(h) => (GuardStatus(h) = 0 /\ SourceFetched(h))
        /\ (pc[h] = "done" /\ GuardStatus(h) # 0) =>
              (resp[h].status = GuardStatus(h) /\ ~Written(h))

====
